---- MODULE Spec2Model ----
(***************************************************************************)
(* A model of mcp-telegram's tool registry and dispatch: the registry      *)
(* built by server.enumerate_available_tools, the call path of             *)
(* server.call_tool (shape check, lookup, tools.tool_args,                 *)
(* tools.tool_runner), the backend session every handler in tools.py opens *)
(* with `async with create_client()`, and the request loop the server runs *)
(* over its input and output streams.                                      *)
(***************************************************************************)
EXTENDS Integers, Sequences, FiniteSets, TLC

\* ---------------------------------------------------------------- bounds

\* Requests the client sends in one run of the server.
MaxRequests == 2

\* Bound on the build steps run in one process, the one at import included.
MaxBuilds == 2

\* Bound on the dialogs the backend lists, or names in one reply.
MaxDialogs == 2

\* Bound on the messages of a dialog's history.
MaxHistory == 2

\* Bound on the users named in one CreateChannel call.
MaxUsers == 2

\* ---------------------------------------------------------------- values

\* A Python value as it arrives in an argument mapping: its type and its repr.
V(t, s) == [t |-> t, s |-> s]

\* The marker of a field with no declared default (a required field).
NoDefault == V("undefined", "")

\* The values an argument is given in the requests that are explored.
SampleValues ==
    { V("int", "7"), V("int", "1"), V("str", "hi"), V("str", "12"),
      V("str", "true"), V("bool", "True"), V("none", "None"), V("list", "[]") }

\* A list of two users, given to the fields that take a list.
ListSamples == { V("list", "['bob', 'ann']") }

\* The items of a list of users.
ItemsOf(v) ==
    CASE v.s = "['bob']" -> << "bob" >>
      [] v.s = "['bob', 'ann']" -> << "bob", "ann" >>
      [] OTHER -> << >>

\* One declared field of an argument class.
F(n, ty, req, def) == [n |-> n, ty |-> ty, req |-> req, def |-> def]

\* The fields each argument class declares (tools.py, class bodies): name, type,
\* whether it is required, and its declared default.
FieldsOf(c) ==
    CASE c = "ListDialogs" ->
           << F("unread", "bool", FALSE, V("bool", "False")),
              F("archived", "bool", FALSE, V("bool", "False")),
              F("ignore_pinned", "bool", FALSE, V("bool", "False")) >>
      [] c = "SendMessage" ->
           << F("dialog_id", "int", TRUE, NoDefault),
              F("message", "str", TRUE, NoDefault) >>
      [] c = "DeleteMessage" ->
           << F("dialog_id", "int", TRUE, NoDefault),
              F("message_id", "int", TRUE, NoDefault) >>
      [] c = "EditMessage" ->
           << F("dialog_id", "int", TRUE, NoDefault),
              F("message_id", "int", TRUE, NoDefault),
              F("new_text", "str", TRUE, NoDefault) >>
      [] c = "ForwardMessage" ->
           << F("from_dialog_id", "int", TRUE, NoDefault),
              F("message_id", "int", TRUE, NoDefault),
              F("to_dialog_id", "int", TRUE, NoDefault),
              F("silent", "bool", FALSE, V("bool", "False")) >>
      [] c = "PinMessage" ->
           << F("dialog_id", "int", TRUE, NoDefault),
              F("message_id", "int", TRUE, NoDefault),
              F("notify", "bool", FALSE, V("bool", "True")),
              F("pm_oneside", "bool", FALSE, V("bool", "False")) >>
      [] c = "UnpinMessage" ->
           << F("dialog_id", "int", TRUE, NoDefault),
              F("message_id", "int?", FALSE, V("none", "None")) >>
      [] c = "GetMessageReactions" ->
           << F("dialog_id", "int", TRUE, NoDefault),
              F("message_id", "int", TRUE, NoDefault) >>
      [] c = "ReactToMessage" ->
           << F("dialog_id", "int", TRUE, NoDefault),
              F("message_id", "int", TRUE, NoDefault),
              F("emoji", "str", TRUE, NoDefault),
              F("add_reaction", "bool", FALSE, V("bool", "True")),
              F("big", "bool", FALSE, V("bool", "False")) >>
      [] c = "ReplyToMessage" ->
           << F("dialog_id", "int", TRUE, NoDefault),
              F("message_id", "int", TRUE, NoDefault),
              F("text", "str", TRUE, NoDefault),
              F("silent", "bool", FALSE, V("bool", "False")) >>
      [] c = "SendPhoto" ->
           << F("dialog_id", "int", TRUE, NoDefault),
              F("photo_path", "str", TRUE, NoDefault),
              F("caption", "str?", FALSE, V("none", "None")),
              F("silent", "bool", FALSE, V("bool", "False")),
              F("reply_to", "int?", FALSE, V("none", "None")) >>
      [] c = "SendDocument" ->
           << F("dialog_id", "int", TRUE, NoDefault),
              F("file_path", "str", TRUE, NoDefault),
              F("caption", "str?", FALSE, V("none", "None")),
              F("silent", "bool", FALSE, V("bool", "False")),
              F("reply_to", "int?", FALSE, V("none", "None")),
              F("thumbnail", "str?", FALSE, V("none", "None")) >>
      [] c = "SendVoice" ->
           << F("dialog_id", "int", TRUE, NoDefault),
              F("voice_path", "str", TRUE, NoDefault),
              F("caption", "str?", FALSE, V("none", "None")),
              F("silent", "bool", FALSE, V("bool", "False")),
              F("reply_to", "int?", FALSE, V("none", "None")) >>
      [] c = "SendVideo" ->
           << F("dialog_id", "int", TRUE, NoDefault),
              F("video_path", "str", TRUE, NoDefault),
              F("caption", "str?", FALSE, V("none", "None")),
              F("thumbnail", "str?", FALSE, V("none", "None")),
              F("duration", "int?", FALSE, V("none", "None")),
              F("width", "int?", FALSE, V("none", "None")),
              F("height", "int?", FALSE, V("none", "None")),
              F("supports_streaming", "bool", FALSE, V("bool", "True")),
              F("silent", "bool", FALSE, V("bool", "False")),
              F("reply_to", "int?", FALSE, V("none", "None")) >>
      [] c = "DownloadMedia" ->
           << F("dialog_id", "int", TRUE, NoDefault),
              F("message_id", "int", TRUE, NoDefault),
              F("output_path", "str?", FALSE, V("none", "None")),
              F("force_document", "bool", FALSE, V("bool", "False")) >>
      [] c = "SendSticker" ->
           << F("dialog_id", "int", TRUE, NoDefault),
              F("sticker_path", "str", TRUE, NoDefault),
              F("reply_to", "int?", FALSE, V("none", "None")),
              F("silent", "bool", FALSE, V("bool", "False")) >>
      [] c = "SendGIF" ->
           << F("dialog_id", "int", TRUE, NoDefault),
              F("gif_path", "str", TRUE, NoDefault),
              F("caption", "str?", FALSE, V("none", "None")),
              F("reply_to", "int?", FALSE, V("none", "None")),
              F("silent", "bool", FALSE, V("bool", "False")) >>
      [] c = "UploadMedia" ->
           << F("file_path", "str", TRUE, NoDefault),
              F("file_name", "str?", FALSE, V("none", "None")),
              F("progress_callback", "bool", FALSE, V("bool", "True")) >>
      [] c = "CreateGroup" ->
           << F("title", "str", TRUE, NoDefault),
              F("users", "list", FALSE, V("list", "[]")),
              F("about", "str?", FALSE, V("none", "None")),
              F("supergroup", "bool", FALSE, V("bool", "True")),
              F("ttl_period", "int?", FALSE, V("none", "None")) >>
      [] c = "CreateChannel" ->
           << F("title", "str", TRUE, NoDefault),
              F("about", "str?", FALSE, V("none", "None")),
              F("private", "bool", FALSE, V("bool", "False")),
              F("users", "list", FALSE, V("list", "[]")),
              F("ttl_period", "int?", FALSE, V("none", "None")) >>
      [] c = "InviteToChat" ->
           << F("chat_id", "int", TRUE, NoDefault),
              F("users", "list", TRUE, NoDefault) >>
      [] c = "GetChatMembers" ->
           << F("chat_id", "int", TRUE, NoDefault),
              F("filter", "str", FALSE, V("str", "all")),
              F("search", "str?", FALSE, V("none", "None")),
              F("limit", "int", FALSE, V("int", "100")) >>
      [] c = "GetChatPermissions" ->
           << F("chat_id", "int", TRUE, NoDefault) >>
      [] c = "UpdateChatPhoto" ->
           << F("chat_id", "int", TRUE, NoDefault),
              F("photo_path", "str", TRUE, NoDefault) >>
      [] c = "UpdateChatInfo" ->
           << F("chat_id", "int", TRUE, NoDefault),
              F("title", "str?", FALSE, V("none", "None")),
              F("about", "str?", FALSE, V("none", "None")) >>
      [] c = "SetChatPermissions" ->
           << F("chat_id", "int", TRUE, NoDefault),
              F("send_messages", "bool?", FALSE, V("none", "None")),
              F("send_media", "bool?", FALSE, V("none", "None")),
              F("send_stickers", "bool?", FALSE, V("none", "None")),
              F("send_gifs", "bool?", FALSE, V("none", "None")),
              F("send_games", "bool?", FALSE, V("none", "None")),
              F("send_inline", "bool?", FALSE, V("none", "None")),
              F("embed_links", "bool?", FALSE, V("none", "None")),
              F("send_polls", "bool?", FALSE, V("none", "None")),
              F("change_info", "bool?", FALSE, V("none", "None")),
              F("invite_users", "bool?", FALSE, V("none", "None")),
              F("pin_messages", "bool?", FALSE, V("none", "None")) >>
      [] c = "ManageUser" ->
           << F("chat_id", "int", TRUE, NoDefault),
              F("user_id", "int|str", TRUE, NoDefault),
              F("action", "str", TRUE, NoDefault),
              F("ban_duration", "int?", FALSE, V("none", "None")) >>
      [] c = "GetBannedUsers" ->
           << F("chat_id", "int", TRUE, NoDefault),
              F("limit", "int", FALSE, V("int", "100")) >>
      [] c = "LeaveChat" ->
           << F("chat_id", "int", TRUE, NoDefault) >>
      [] c = "GetChatInviteLink" ->
           << F("chat_id", "int", TRUE, NoDefault),
              F("new_link", "bool", FALSE, V("bool", "False")),
              F("expire_date", "int?", FALSE, V("none", "None")),
              F("usage_limit", "int?", FALSE, V("none", "None")) >>
      [] c = "ListMessages" ->
           << F("dialog_id", "int", TRUE, NoDefault),
              F("unread", "bool", FALSE, V("bool", "False")),
              F("limit", "int", FALSE, V("int", "100")) >>
      [] OTHER -> << >>

\* The handlers registered with @tool_runner.register, keyed by the class their
\* parameter is annotated with, in registration order.
Registrations ==
    << [cls |-> "ListDialogs", fn |-> "list_dialogs"],
       [cls |-> "SendMessage", fn |-> "send_message"],
       [cls |-> "DeleteMessage", fn |-> "delete_message"],
       [cls |-> "EditMessage", fn |-> "edit_message"],
       [cls |-> "ForwardMessage", fn |-> "forward_message"],
       [cls |-> "PinMessage", fn |-> "pin_message"],
       [cls |-> "UnpinMessage", fn |-> "unpin_message"],
       [cls |-> "GetMessageReactions", fn |-> "get_message_reactions"],
       [cls |-> "ReactToMessage", fn |-> "react_to_message"],
       [cls |-> "ReplyToMessage", fn |-> "reply_to_message"],
       [cls |-> "SendPhoto", fn |-> "send_photo"],
       [cls |-> "SendDocument", fn |-> "send_document"],
       [cls |-> "SendVoice", fn |-> "send_voice"],
       [cls |-> "SendVideo", fn |-> "send_video"],
       [cls |-> "DownloadMedia", fn |-> "download_media"],
       [cls |-> "SendSticker", fn |-> "send_sticker"],
       [cls |-> "SendGIF", fn |-> "send_gif"],
       [cls |-> "UploadMedia", fn |-> "upload_media"],
       [cls |-> "CreateGroup", fn |-> "create_group"],
       [cls |-> "CreateChannel", fn |-> "create_channel"],
       [cls |-> "InviteToChat", fn |-> "invite_to_chat"],
       [cls |-> "GetChatMembers", fn |-> "get_chat_members"],
       [cls |-> "GetChatPermissions", fn |-> "get_chat_permissions"],
       [cls |-> "UpdateChatPhoto", fn |-> "update_chat_photo"],
       [cls |-> "UpdateChatInfo", fn |-> "update_chat_info"],
       [cls |-> "SetChatPermissions", fn |-> "set_chat_permissions"],
       [cls |-> "ManageUser", fn |-> "manage_user"],
       [cls |-> "GetBannedUsers", fn |-> "get_banned_users"],
       [cls |-> "LeaveChat", fn |-> "leave_chat"],
       [cls |-> "GetChatInviteLink", fn |-> "get_chat_invite_link"],
       [cls |-> "ListMessages", fn |-> "list_messages"] >>

\* The fixed phrase a handler puts before the backend's message when its own
\* except clause catches a failure; "" for the two handlers with no except clause.
FailPhrase(fn) ==
    CASE fn = "send_message" -> "Failed to send message: "
      [] fn = "delete_message" -> "Failed to delete message: "
      [] fn = "edit_message" -> "Failed to edit message: "
      [] fn = "forward_message" -> "Failed to forward message: "
      [] fn = "pin_message" -> "Failed to pin message: "
      [] fn = "unpin_message" -> "Failed to unpin message(s): "
      [] fn = "get_message_reactions" -> "Failed to get message reactions: "
      [] fn = "react_to_message" -> "Failed to handle reaction: "
      [] fn = "reply_to_message" -> "Failed to send reply: "
      [] fn = "send_photo" -> "Failed to send photo: "
      [] fn = "send_document" -> "Failed to send document: "
      [] fn = "send_voice" -> "Failed to send voice message: "
      [] fn = "send_video" -> "Failed to send video: "
      [] fn = "download_media" -> "Failed to download media: "
      [] fn = "send_sticker" -> "Failed to send sticker: "
      [] fn = "send_gif" -> "Failed to send GIF: "
      [] fn = "upload_media" -> "Failed to upload file: "
      [] fn = "create_group" -> "Failed to create group: "
      [] fn = "create_channel" -> "Failed to create channel: "
      [] fn = "invite_to_chat" -> "Failed to process invites: "
      [] fn = "get_chat_members" -> "Failed to get chat members: "
      [] fn = "get_chat_permissions" -> "Failed to get chat permissions: "
      [] fn = "update_chat_photo" -> "Failed to update chat photo: "
      [] fn = "update_chat_info" -> "Failed to update chat info: "
      [] fn = "set_chat_permissions" -> "Failed to set chat permissions: "
      [] fn = "manage_user" -> "Failed to {args.action} user: "
      [] fn = "get_banned_users" -> "Failed to get banned users: "
      [] fn = "leave_chat" -> "Failed to leave chat: "
      [] fn = "get_chat_invite_link" -> "Failed to get/create invite link: "
      [] OTHER -> ""

EarlyReturning == {"get_message_reactions", "download_media", "get_banned_users"}

\* __doc__ of an argument class, the description of its descriptor: the whole
\* docstring as the compiler stores it, with the indentation its lines share
\* removed, the line breaks kept. A string here cannot hold a grave accent: the
\* four that the docstring of ListMessages has around two field names are
\* written as apostrophes.
DocOf(c) ==
    CASE c = "ListDialogs" ->
        "List available dialogs, chats and channels."
      [] c = "SendMessage" ->
        "\nSend a message to a specified dialog, chat, or channel.\n\nAllows sending text messages to a specified chat identified by its dialog_id.\nThe message will be sent as plain text.\n"
      [] c = "DeleteMessage" ->
        "\nDelete a specific message from a dialog, chat, or channel.\n\nRequires both the dialog_id and the specific message_id to delete.\n"
      [] c = "EditMessage" ->
        "\nEdit an existing message in a dialog, chat, or channel.\n\nRequires the dialog_id, message_id, and the new text to replace the original message.\n"
      [] c = "ForwardMessage" ->
        "\nForward a message from one chat to another.\n\nRequires the source chat ID, message ID to forward, and the destination chat ID.\nOptionally, you can disable notification for the forwarded message.\n"
      [] c = "PinMessage" ->
        "\nPin a message in a chat.\n\nRequires the chat ID and message ID to pin.\nOptionally, you can disable notification for the pinned message\nand pin the message silently.\n"
      [] c = "UnpinMessage" ->
        "\nUnpin a message from a chat.\n\nRequires the chat ID and optionally the specific message ID to unpin.\nIf no message ID is provided, all pinned messages will be unpinned.\n"
      [] c = "GetMessageReactions" ->
        "\nGet all reactions for a specific message.\n\nReturns a list of reactions and the count of each reaction on the message.\n"
      [] c = "ReactToMessage" ->
        "\nAdd or remove a reaction to/from a message.\n\nYou can react with either an emoji or a custom emoji ID.\nSet add_reaction to False to remove the reaction instead of adding it.\n"
      [] c = "ReplyToMessage" ->
        "\nReply to a specific message in a chat.\n\nCreates a new message that is a reply to the specified message.\nYou can optionally send the reply silently (without notification).\n"
      [] c = "SendPhoto" ->
        "\nSend a photo to a chat.\n\nAccepts a local file path or URL to the image.\nYou can optionally include a caption and send it silently.\n"
      [] c = "SendDocument" ->
        "\nSend a document/file to a chat.\n\nAccepts a local file path or URL.\nYou can optionally include a caption and send it silently.\nThe file will be sent as a document, preserving its original format.\n"
      [] c = "SendVoice" ->
        "\nSend a voice message to a chat.\n\nAccepts a local file path or URL to an audio file.\nThe file will be sent as a voice message (round message format).\nSupports common audio formats like mp3, ogg, m4a.\n"
      [] c = "SendVideo" ->
        "\nSend a video to a chat.\n\nAccepts a local file path or URL to a video file.\nYou can optionally include a caption, thumbnail, and other video-specific attributes.\n"
      [] c = "DownloadMedia" ->
        "\nDownload media from a message.\n\nDownloads the media attachment from a specific message and saves it to a specified path.\nIf no path is provided, the file will be saved with its original name in the current directory.\n"
      [] c = "SendSticker" ->
        "\nSend a sticker to a chat.\n\nAccepts either a sticker file path or a sticker ID from a sticker set.\nFor animated stickers, make sure the file is in .tgs format.\nFor video stickers, make sure the file is in .webm format.\n"
      [] c = "SendGIF" ->
        "\nSend a GIF to a chat.\n\nAccepts a local file path or URL to a GIF file.\nThe file will be sent as an animated GIF (video note in Telegram).\n"
      [] c = "UploadMedia" ->
        "\nUpload media to Telegram servers without sending it to any chat.\n\nThis is useful when you need to reuse the same media file multiple times,\nas it prevents uploading the same file repeatedly.\nReturns the file ID that can be used in other operations.\n"
      [] c = "CreateGroup" ->
        "\nCreate a new Telegram group.\n\nCreates a new group with specified title and optional description.\nYou can make it a supergroup (recommended for larger groups) and add users immediately.\n"
      [] c = "CreateChannel" ->
        "\nCreate a new Telegram channel.\n\nCreates a broadcast channel with specified title and optional description.\nYou can make it private and add users immediately.\n"
      [] c = "InviteToChat" ->
        "\nInvite users to a chat.\n\nInvites one or more users to a group or channel.\nUsers can be specified by username or user ID.\n"
      [] c = "GetChatMembers" ->
        "\nGet a list of chat members.\n\nRetrieves members of a group or channel with their roles (admin, member, etc.).\nCan filter by role and search by name.\n"
      [] c = "GetChatPermissions" ->
        "\nGet chat permissions.\n\nRetrieves the current permission settings for a group or channel.\n"
      [] c = "UpdateChatPhoto" ->
        "\nUpdate a chat's profile photo.\n\nChanges the profile photo of a group or channel.\nAccepts a local file path or URL to the new photo.\n"
      [] c = "UpdateChatInfo" ->
        "\nUpdate a chat's basic information.\n\nChanges the title and/or description of a group or channel.\nAt least one of title or about must be provided.\n"
      [] c = "SetChatPermissions" ->
        "\nSet default permissions for all members in a chat.\n\nUpdates the default permissions for non-admin members in a group or channel.\nPermissions not specified will retain their current values.\n"
      [] c = "ManageUser" ->
        "\nManage a user in a chat (kick, ban, or unban).\n\nAllows kicking or banning users from a group or channel.\nCan also be used to unban previously banned users.\n"
      [] c = "GetBannedUsers" ->
        "\nGet a list of banned users in a chat.\n\nRetrieves all users that are currently banned from a group or channel.\n"
      [] c = "LeaveChat" ->
        "\nLeave a chat.\n\nAllows the bot to leave a group, channel, or chat.\n"
      [] c = "GetChatInviteLink" ->
        "\nGet or create an invite link for a chat.\n\nGenerates a new invite link or retrieves the existing one.\nCan optionally create a new link even if one exists.\n"
      [] c = "ListMessages" ->
        "\nList messages in a given dialog, chat or channel. The messages are listed in order from newest to oldest.\n\nIf 'unread' is set to 'True', only unread messages will be listed. Once a message is read, it will not be\nlisted again.\n\nIf 'limit' is set, only the last 'limit' messages will be listed. If 'unread' is set, the limit will be\nthe minimum between the unread messages and the limit.\n"
      [] OTHER -> ""

ModuleMembers ==
    << "BaseModel", "ConfigDict", "CreateChannel", "CreateGroup",
       "DeleteMessage", "DownloadMedia", "EditMessage", "EmbeddedResource",
       "ForwardMessage", "GetBannedUsers", "GetChatInviteLink", "GetChatMembers",
       "GetChatPermissions", "GetMessageReactions", "ImageContent", "InviteToChat",
       "LeaveChat", "ListDialogs", "ListMessages", "ManageUser",
       "PinMessage", "ReactToMessage", "ReplyToMessage", "SendDocument",
       "SendGIF", "SendMessage", "SendPhoto", "SendSticker",
       "SendVideo", "SendVoice", "SetChatPermissions", "TelegramClient",
       "TextContent", "Tool", "ToolArgs", "UnpinMessage",
       "UpdateChatInfo", "UpdateChatPhoto", "UploadMedia" >>

\* The classes tools.py declares with ToolArgs as their base.
DeclaredArgTypes ==
    { "ListDialogs", "SendMessage", "DeleteMessage", "EditMessage",
      "ForwardMessage", "PinMessage", "UnpinMessage", "GetMessageReactions",
      "ReactToMessage", "ReplyToMessage", "SendPhoto", "SendDocument",
      "SendVoice", "SendVideo", "DownloadMedia", "SendSticker",
      "SendGIF", "UploadMedia", "CreateGroup", "CreateChannel",
      "InviteToChat", "GetChatMembers", "GetChatPermissions", "UpdateChatPhoto",
      "UpdateChatInfo", "SetChatPermissions", "ManageUser", "GetBannedUsers",
      "LeaveChat", "GetChatInviteLink", "ListMessages" }

\* ------------------------------------------------------------- registry

\* The direct base of each class found in the namespace of the tools module.
ClassBase(c) ==
    CASE c \in DeclaredArgTypes -> "ToolArgs"
      [] c = "ToolArgs" -> "BaseModel"
      [] c \in {"EmbeddedResource", "ImageContent", "TextContent", "Tool"} -> "BaseModel"
      [] c = "ConfigDict" -> "dict"
      [] OTHER -> "object"

RECURSIVE IsSubclass(_, _)
IsSubclass(c, b) ==
    IF c = b THEN TRUE
    ELSE IF c \in {"object", "dict"} THEN FALSE
    ELSE IsSubclass(ClassBase(c), b)

\* A schema that marks no field as required.
JsonSchema_NothingRequired(c) == [ properties |-> FieldsOf(c), required |-> {} ]

\* model_json_schema(): the declared fields with their types and defaults, and the
\* names of the required ones.
JsonSchema(c) ==
    [ properties |-> FieldsOf(c),
      required   |-> { FieldsOf(c)[i].n : i \in { j \in 1..Len(FieldsOf(c)) : FieldsOf(c)[j].req } } ]

\* A description that names a type after its base.
tool_description_NamedAfterBase(c) ==
    [ name |-> ClassBase(c), description |-> DocOf(c), inputSchema |-> JsonSchema(c) ]

tool_description(c) ==
    [ name |-> c, description |-> DocOf(c), inputSchema |-> JsonSchema(c) ]

\* The filter without its test against the base type itself.
IsToolClass_WithBase(c) == IsSubclass(c, "ToolArgs")

\* The filter of the scan: a proper subclass of ToolArgs.
IsToolClass(c) == IsSubclass(c, "ToolArgs") /\ c # "ToolArgs"

RECURSIVE EnumerateFrom(_)
EnumerateFrom(i) ==
    IF i > Len(ModuleMembers) THEN << >>
    ELSE IF IsToolClass(ModuleMembers[i])
         THEN << [key |-> tool_description(ModuleMembers[i]).name,
                  value |-> tool_description(ModuleMembers[i])] >> \o EnumerateFrom(i + 1)
         ELSE EnumerateFrom(i + 1)

\* The (name, descriptor) pairs the scan yields, in the order of getmembers.
enumerate_available_tools == EnumerateFrom(1)

\* functools.cache around the generator function: the store is "empty" until the
\* first call; a call on an empty store runs the function, which makes a generator
\* that has not started ("fresh"), and stores it; every later call returns the
\* stored generator as it stands.
\* A call that makes a new generator every time.
CachedCall_Uncached(store) == "fresh"

CachedCall(store) == IF store = "empty" THEN "fresh" ELSE store

\* Whether iterating the generator runs the scan (inspect.getmembers): only a
\* generator that has not started does.
Scans(g) == IF g = "fresh" THEN 1 ELSE 0

\* The pairs a generator yields when iterated to its end: all of them when it has
\* not started, none when it is exhausted.
Drain(g) == IF g = "fresh" THEN enumerate_available_tools ELSE << >>

\* dict(pairs): a later pair with a key already present replaces that key's value
\* and keeps its place.
RECURSIVE DictOf(_, _)
DictOf(pairs, acc) ==
    IF pairs = << >> THEN acc
    ELSE LET p == Head(pairs)
             hit == { i \in 1..Len(acc) : acc[i].key = p.key }
         IN  DictOf(Tail(pairs),
                    IF hit = {} THEN Append(acc, p)
                    ELSE [ i \in 1..Len(acc) |-> IF i \in hit THEN p ELSE acc[i] ])

Keys(m) == { m[i].key : i \in 1..Len(m) }

\* The build step, dict(enumerate_available_tools()): the mapping it returns, the
\* store it leaves (the generator is exhausted) and the scans it ran.
BuildStep(store) ==
    LET g == CachedCall(store)
    IN  [ result |-> DictOf(Drain(g), << >>), store |-> "exhausted", scans |-> Scans(g) ]

\* The absent result of mapping.get.
NoTool == [ name |-> "", description |-> "", inputSchema |-> [properties |-> << >>, required |-> {}] ]

\* A lookup that falls back to the first registered descriptor.
MappingGet_Default(m, name) ==
    IF name \in Keys(m)
    THEN m[CHOOSE i \in 1..Len(m) : m[i].key = name].value
    ELSE m[1].value

MappingGet(m, name) ==
    IF name \in Keys(m)
    THEN m[CHOOSE i \in 1..Len(m) : m[i].key = name].value
    ELSE NoTool

\* A dispatch that takes the handler registered last, whatever the class.
RunnerFor_LastRegistered(reg, cls) ==
    IF reg # << >> THEN reg[Len(reg)].fn ELSE "tool_runner"

\* A dispatch that finds a handler only for the class registered first.
RunnerFor_FirstOnly(reg, cls) ==
    IF reg # << >> /\ reg[1].cls = cls THEN reg[1].fn ELSE "tool_runner"

\* functools.singledispatch: the registry of handlers by class, and the dispatch
\* of an instance's class to a registered handler or to the default.
RunnerFor(reg, cls) ==
    IF \E i \in 1..Len(reg) : reg[i].cls = cls
    THEN reg[CHOOSE i \in 1..Len(reg) : reg[i].cls = cls /\ \A j \in 1..Len(reg) : reg[j].cls = cls => j <= i].fn
    ELSE "tool_runner"

\* ----------------------------------------------------------- exceptions

Exc(type, msg, cause) == [ type |-> type, msg |-> msg, cause |-> cause ]
NoExc == Exc("", << >>, "")

\* The classes that derive from BaseException and not from Exception: an
\* `except Exception` clause does not catch them.
NonExceptionTypes == {"SystemExit", "KeyboardInterrupt", "CancelledError"}
IsException(type) == type # "" /\ type \notin NonExceptionTypes

\* Whether the token sequence `part` occurs, contiguous, in `whole`.
Contains(whole, part) ==
    \E i \in 0..(Len(whole) - Len(part)) :
        \A j \in 1..Len(part) : whole[i + j] = part[j]

\* ------------------------------------------------- argument construction

Absent == V("absent", "")

\* The text of the integer a numeric string parses to.
IsNumeric(s) == s \in {"7", "1", "12", "100", "0"}

\* The truthy and the falsy spellings a bool field accepts.
BoolTrueStrings == {"1", "on", "t", "true", "y", "yes"}
BoolFalseStrings == {"0", "off", "f", "false", "n", "no"}

\* The result of converting one input: the value, or the lines of the error, each
\* with the kind of the error and what it adds to the field's name as its place.
Valid(v) == [ ok |-> TRUE, v |-> v, err |-> << >> ]
Invalid(kind) == [ ok |-> FALSE, v |-> Absent, err |-> << [ at |-> "", kind |-> kind ] >> ]

\* The conversion of one input value to a field's declared type (the argument
\* classes keep the default, non-strict configuration of ToolArgs).
CoerceInt(v) ==
    CASE v.t = "int" -> Valid(v)
      [] v.t = "bool" -> Valid(V("int", IF v.s = "True" THEN "1" ELSE "0"))
      [] v.t = "str" -> IF IsNumeric(v.s) THEN Valid(V("int", v.s)) ELSE Invalid("int_parsing")
      [] OTHER -> Invalid("int_type")

CoerceStr(v) ==
    IF v.t = "str" THEN Valid(v) ELSE Invalid("string_type")

CoerceBool(v) ==
    CASE v.t = "bool" -> Valid(v)
      [] v.t = "int" ->
           IF v.s = "1" THEN Valid(V("bool", "True"))
           ELSE IF v.s = "0" THEN Valid(V("bool", "False"))
           ELSE Invalid("bool_parsing")
      [] v.t = "str" ->
           IF v.s \in BoolTrueStrings THEN Valid(V("bool", "True"))
           ELSE IF v.s \in BoolFalseStrings THEN Valid(V("bool", "False"))
           ELSE Invalid("bool_parsing")
      [] OTHER -> Invalid("bool_type")

Coerce(ty, v) ==
    CASE ty = "int" -> CoerceInt(v)
      [] ty = "str" -> CoerceStr(v)
      [] ty = "bool" -> CoerceBool(v)
      [] ty = "int?" -> IF v.t = "none" THEN Valid(v) ELSE CoerceInt(v)
      [] ty = "str?" -> IF v.t = "none" THEN Valid(v) ELSE CoerceStr(v)
      [] ty = "bool?" -> IF v.t = "none" THEN Valid(v) ELSE CoerceBool(v)
      [] ty = "int|str" ->
           IF v.t \in {"int", "str"} THEN Valid(v)
           ELSE IF CoerceInt(v).ok THEN CoerceInt(v)
           ELSE [ ok |-> FALSE, v |-> Absent,
                  err |-> << [ at |-> ".int", kind |-> CoerceInt(v).err[1].kind ],
                             [ at |-> ".str", kind |-> CoerceStr(v).err[1].kind ] >> ]
      [] ty = "list" -> IF v.t = "list" THEN Valid(v) ELSE Invalid("list_type")
      [] OTHER -> Invalid("unknown_type")

\* An omitted optional field left as None whatever its declared default.
FieldResult_DefaultNone(f, args) ==
    IF f.n \in DOMAIN args THEN Coerce(f.ty, args[f.n])
    ELSE IF f.req THEN Invalid("missing")
    ELSE Valid(V("none", "None"))

\* What one declared field becomes, given the argument mapping: the converted
\* input, the default of an omitted optional field, or an error.
FieldResult(f, args) ==
    IF f.n \in DOMAIN args THEN Coerce(f.ty, args[f.n])
    ELSE IF f.req THEN Invalid("missing")
    ELSE Valid(f.def)

FieldNames(c) == { FieldsOf(c)[i].n : i \in 1..Len(FieldsOf(c)) }

FieldNamed(c, n) == FieldsOf(c)[CHOOSE i \in 1..Len(FieldsOf(c)) : FieldsOf(c)[i].n = n]

\* The fields of class c the mapping fails on, in declaration order.
FailingFields(c, args) ==
    SelectSeq([ i \in 1..Len(FieldsOf(c)) |-> FieldsOf(c)[i].n ],
              LAMBDA n : ~FieldResult(FieldNamed(c, n), args).ok)

\* The lines of one field's error: the place (the field's name, and the member
\* of the union for a field that is one) and the kind of each.
RECURSIVE FieldLines(_, _)
FieldLines(name, err) ==
    IF err = << >> THEN << >>
    ELSE << name \o Head(err).at, Head(err).kind >> \o FieldLines(name, Tail(err))

\* The lines of the validation error: those of each failing field, in
\* declaration order.
RECURSIVE ErrorLines(_, _, _)
ErrorLines(c, args, names) ==
    IF names = << >> THEN << >>
    ELSE FieldLines(Head(names), FieldResult(FieldNamed(c, Head(names)), args).err)
         \o ErrorLines(c, args, Tail(names))

\* The first line of the text of a validation error with n lines for class c.
ErrorHeader(n, c) ==
    ToString(n) \o (IF n = 1 THEN " validation error for " ELSE " validation errors for ") \o c

\* The validation error of a mapping class c rejects; its text is the header
\* with the number of lines, then each line's place and kind.
ValidationError(c, args) ==
    LET lines == ErrorLines(c, args, FailingFields(c, args))
    IN  Exc("ValidationError", << ErrorHeader(Len(lines) \div 2, c) >> \o lines, "")

\* The instance of class c built from the mapping; keys that name no field are
\* ignored.
Construct(c, args) ==
    [ n \in FieldNames(c) |-> FieldResult(FieldNamed(c, n), args).v ]

\* tools.tool_args(tool, **arguments): the class is looked up by the descriptor's
\* name and called with the mapping as keyword arguments. A key "tool" collides
\* with the positional parameter of tool_args itself.
tool_args(tool, args) ==
    IF "tool" \in DOMAIN args
    THEN [ ok |-> FALSE, cls |-> tool.name,
           exc |-> Exc("TypeError", << "tool_args() got multiple values for argument 'tool'" >>, "") ]
    ELSE IF FailingFields(tool.name, args) # << >>
    THEN [ ok |-> FALSE, cls |-> tool.name, exc |-> ValidationError(tool.name, args) ]
    ELSE [ ok |-> TRUE, cls |-> tool.name, exc |-> NoExc ]

\* ---------------------------------------------------------------- state

VARIABLES
    srv,          \* the server: "Idle", "Negotiating", "Serving", "Terminated"
    termCause,    \* why the server terminated: "", "eof", "transport", "escaped"
    mapping,      \* server.mapping: the registry, a dict as its (key, value) pairs
    genStore,     \* the store of the cache around enumerate_available_tools
    scans,        \* scans of the tools module run so far
    builds,       \* build steps run so far (the first one at import)
    rebuilt,      \* what the latest build step after the first returned
    streams,      \* the stdio streams: "unopened", "open", "released"
    cli,          \* the call-tool command (see NoCli for its fields)
    run,          \* a handler run on its own (see NoRun for its fields)
    runners,      \* the handlers registered with tool_runner, by class
    sent,         \* requests the client has written to the input stream
    closed,       \* the client has closed the input stream
    taken,        \* requests the server has read
    inflight,     \* requests read and not yet answered
    pc,           \* where the request in progress is
    cur,          \* the request in progress
    constructed,  \* argument instances built for the request in progress
    invoked,      \* handler invocations made for the request in progress
    acquires,     \* session acquisitions started for the request in progress
    held,         \* the backend session is held (between __aenter__ and __aexit__)
    calls,        \* backend calls made by the handler execution in progress
    unheldCalls,  \* backend calls made while no session was held
    pending,      \* what the handler will leave with once the session is released
    outcome,      \* what the request's function returned or raised
    responses     \* the responses written to the output stream, in order

vars == << pc, srv, taken, inflight, sent, closed, calls, held, cur, pending,
           outcome, responses, constructed, invoked, acquires, unheldCalls,
           termCause, streams, cli, run, genStore, scans, builds, rebuilt,
           runners, mapping >>

\* ------------------------------------------------------------- requests

RequestKinds ==
    { "list_tools", "call_tool", "list_prompts", "list_resources",
      "list_resource_templates", "progress_notification" }

\* Names a call may ask for: every class of the tools module, and a name that is
\* nowhere in it.
RequestedNames == { ModuleMembers[i] : i \in 1..Len(ModuleMembers) } \cup { "NoSuchTool" }

\* The shapes an arguments payload can have.
Shapes == { "dict", "list", "str", "int", "none" }

\* No progress arguments: the request is of another kind.
NoProgress == [ token |-> Absent, p |-> Absent, s |-> Absent ]

\* The arguments a progress notification can carry: a token that is a string, an
\* integer or neither, a progress, and a total that is a number, absent or None.
ProgressInputs ==
    { [ token |-> t, p |-> q, s |-> u ] :
        t \in { V("str", "tok"), V("int", "7"), V("none", "None") },
        q \in { V("float", "0.5"), V("str", "hi") },
        u \in { V("float", "1.0"), V("none", "None") } }

\* The command has not been started.
NoCliInput == [ name |-> "", text |-> "", pf |-> "", pv |-> Absent ]

NoReq == [ id |-> 0, kind |-> "", name |-> "", shape |-> "", pf |-> "", pv |-> Absent,
           prog |-> NoProgress ]

\* A value of the declared type, given to a required field.
BaseValue(ty) ==
    CASE ty \in {"int", "int?", "int|str"} -> V("int", "7")
      [] ty \in {"str", "str?"} -> V("str", "hi")
      [] ty \in {"bool", "bool?"} -> V("bool", "True")
      [] OTHER -> V("list", "['bob']")

\* Keys that name no field of any argument class.
ExtraKeys == { "bogus", "tool" }

\* The argument mappings explored for an operation: every required field given a
\* value of its type (a list field a list of one user), then at most one key
\* changed: a field omitted or given one of the sample values, a list field
\* given a list of two users, or a key added that names no field.
Perturbations(name) ==
    { [pf |-> "", pv |-> Absent] }
    \cup { [pf |-> n, pv |-> v] : n \in FieldNames(name), v \in SampleValues \cup {Absent} }
    \cup { [pf |-> n, pv |-> v] :
               n \in { f \in FieldNames(name) : FieldNamed(name, f).ty = "list" }, v \in ListSamples }
    \cup { [pf |-> k, pv |-> V("int", "7")] : k \in ExtraKeys }

RequiredNames(name) == { n \in FieldNames(name) : FieldNamed(name, n).req }

ArgsOf(req) ==
    LET dom == (RequiredNames(req.name) \ (IF req.pv = Absent THEN {req.pf} ELSE {}))
               \cup (IF req.pf # "" /\ req.pv # Absent THEN {req.pf} ELSE {})
    IN  [ k \in dom |-> IF k = req.pf THEN req.pv ELSE BaseValue(FieldNamed(req.name, k).ty) ]

\* ------------------------------------------------------------- outcomes

Text(tokens) == [ type |-> "text", text |-> tokens ]

NoOutcome == [ kind |-> "pending", ret |-> << >>, exc |-> NoExc ]
Return(ret) == [ kind |-> "return", ret |-> ret, exc |-> NoExc ]
ReturnNone == [ kind |-> "return_none", ret |-> << >>, exc |-> NoExc ]
Raise(e) == [ kind |-> "raise", ret |-> << >>, exc |-> e ]

\* -------------------------------------------------------------- backend

\* The messages a failing backend call carries.
BackendMessages == { "FLOOD_WAIT_30", "PEER_ID_INVALID" }

BackendFailure(m) == Exc("RPCError", << m >>, "")

\* What acquiring the session can fail with: create_client() finds no settings,
\* or entering the client's context cannot connect.
AcquireFailures ==
    { Exc("ValidationError",
          << ErrorHeader(2, "TelegramSettings"), "api_id", "missing", "api_hash", "missing" >>, ""),
      Exc("ConnectionError", << "Connection to Telegram failed" >>, "") }

\* ------------------------------------------------ the handlers in detail

\* An optional value: None, or the value.
None == << >>
Some(x) == << x >>

\* The sequences over S of length n at most.
RECURSIVE SeqsUpTo(_, _)
SeqsUpTo(S, n) ==
    IF n = 0 THEN { << >> }
    ELSE LET shorter == SeqsUpTo(S, n - 1)
         IN  shorter \cup { Append(q, x) : q \in { r \in shorter : Len(r) = n - 1 }, x \in S }

\* What the body of a handler leaves: the requests it issued, its response list,
\* and the exception that leaves it, if any.
Ran(reqs, response, exc) == [ reqs |-> reqs, response |-> response, exc |-> exc ]

\* The dialogs the backend may hold.
DialogPool ==
    { [ name |-> "Ann", id |-> 1, unread_count |-> 0, unread_mentions_count |-> 0 ],
      [ name |-> "Bob", id |-> 2, unread_count |-> 3, unread_mentions_count |-> 1 ],
      [ name |-> "Cid", id |-> 3, unread_count |-> 1, unread_mentions_count |-> 0 ] }

\* The text of the item list_dialogs makes of a dialog.
DialogText(d) ==
    Text(<< "name='", d.name, "' id=", d.id, " unread=", d.unread_count,
            " mentions=", d.unread_mentions_count >>)

\* A step that leaves out every dialog without unread messages, asked or not.
ListDialogsStep_AlwaysSkipsRead(args, world, k, response) ==
    IF world.failAt = k
        THEN [ done |-> TRUE, response |-> response, exc |-> BackendFailure("FLOOD_WAIT_30") ]
    ELSE IF k > Len(world.dialogs) THEN [ done |-> TRUE, response |-> response, exc |-> NoExc ]
    ELSE IF world.dialogs[k].unread_count = 0
        THEN [ done |-> FALSE, response |-> response, exc |-> NoExc ]
    ELSE [ done |-> FALSE, response |-> Append(response, DialogText(world.dialogs[k])),
           exc |-> NoExc ]

\* The `async for` over client.iter_dialogs resumed for the k-th time: the
\* iteration fails when the backend is asked for the dialog at world.failAt,
\* ends after the last dialog, and otherwise yields the k-th dialog, which the
\* loop body skips (unread asked, none unread) or appends to the response.
ListDialogsStep(args, world, k, response) ==
    IF world.failAt = k
        THEN [ done |-> TRUE, response |-> response, exc |-> BackendFailure("FLOOD_WAIT_30") ]
    ELSE IF k > Len(world.dialogs) THEN [ done |-> TRUE, response |-> response, exc |-> NoExc ]
    ELSE IF args.unread /\ world.dialogs[k].unread_count = 0
        THEN [ done |-> FALSE, response |-> response, exc |-> NoExc ]
    ELSE [ done |-> FALSE, response |-> Append(response, DialogText(world.dialogs[k])),
           exc |-> NoExc ]

\* The loop from its k-th step to its end.
RECURSIVE ListDialogsLoop(_, _, _, _)
ListDialogsLoop(args, world, k, response) ==
    LET s == ListDialogsStep(args, world, k, response)
    IN  IF s.done THEN Ran(<< >>, s.response, s.exc)
        ELSE ListDialogsLoop(args, world, k + 1, s.response)

\* The one listing list_dialogs asks the backend for, with the archived and
\* ignore_pinned of the arguments.
IterDialogs(args) ==
    [ op |-> "iter_dialogs", archived |-> args.archived, ignore_pinned |-> args.ignore_pinned ]

\* The body of list_dialogs inside the session, from its first step to its last;
\* the handler has no except clause.
ListDialogsBody(args, world) ==
    LET looped == ListDialogsLoop(args, world, 1, << >>)
    IN  Ran(<< IterDialogs(args) >>, looped.response, looped.exc)

\* The runs of list_dialogs explored: every combination of the three flags, every
\* list of dialogs up to the bound, and a failure at any point of the iteration
\* or none.
ListDialogsCases ==
    { [ fn |-> "list_dialogs",
        args |-> [ unread |-> u, archived |-> a, ignore_pinned |-> p ],
        world |-> [ dialogs |-> ds, failAt |-> f ] ] :
        u \in BOOLEAN, a \in BOOLEAN, p \in BOOLEAN,
        ds \in SeqsUpTo(DialogPool, MaxDialogs), f \in 0..(MaxDialogs + 1) }

\* The smaller and the larger of two integers.
Min(a, b) == IF a < b THEN a ELSE b
Max(a, b) == IF a < b THEN b ELSE a

\* The entries a reply to the peer-dialog query may carry.
PeerDialogPool ==
    { [ peer |-> 1, unread_count |-> 2 ], [ peer |-> 1, unread_count |-> 0 ],
      [ peer |-> 2, unread_count |-> 0 ] }

\* The messages a history may hold: a message with text, a message without
\* (a photo), and an object that is no custom.Message.
HistoryPool ==
    { [ isMessage |-> TRUE, text |-> << "hello" >> ],
      [ isMessage |-> TRUE, text |-> << "bye" >> ],
      [ isMessage |-> TRUE, text |-> << >> ],
      [ isMessage |-> FALSE, text |-> << "joined" >> ] }

\* What client.iter_messages yields for a limit, newest first: nothing for a
\* limit of zero or less, the whole history for a limit beyond its length.
IterMessages(history, limit) == SubSeq(history, 1, Min(Max(limit, 0), Len(history)))

\* The items list_messages makes of the messages yielded: one per message that
\* is a custom.Message with a non-empty text.
MessageItems(yielded) ==
    LET kept == SelectSeq(yielded, LAMBDA m : m.isMessage /\ m.text # << >>)
    IN  [ i \in 1..Len(kept) |-> Text(kept[i].text) ]

\* The limit of an unread listing, min(dialog.unread_count, args.limit): `dialog`
\* is the variable of the logging loop over result.dialogs that came before, so
\* it is the last entry of the reply, and it is unbound when the reply has none.
UnreadLimit(args, dialogs) ==
    IF dialogs = << >> THEN [ ok |-> FALSE, limit |-> 0 ]
    ELSE [ ok |-> TRUE, limit |-> Min(dialogs[Len(dialogs)].unread_count, args.limit) ]

\* The body of list_messages resumed for the n-th time (n = 0: entered). It
\* first sends the peer-dialog query; resumed with the reply, it raises on a
\* falsy reply, on a reply of another type, and on an unread listing whose reply
\* has no entry, and otherwise starts iterating the history with the limit;
\* each later resumption ends the iteration after the last message yielded or
\* takes the next one, appended when it is a message with a text.
ListMessagesStep(args, world, n, reqs, response) ==
    LET query == [ op |-> "GetPeerDialogsRequest", peers |-> << args.dialog_id >> ]
        iter(limit) == [ op |-> "iter_messages", entity |-> args.dialog_id,
                         reverse |-> FALSE, limit |-> limit ]
        unread == UnreadLimit(args, world.dialogs)
        left(e) == [ done |-> TRUE, reqs |-> reqs, response |-> response, exc |-> e ]
        on(rs, items) == [ done |-> FALSE, reqs |-> rs, response |-> items, exc |-> NoExc ]
    IN  IF n = 0 THEN on(<< query >>, response)
        ELSE IF n = 1 THEN
            IF world.reply = "none"
                THEN left(Exc("ValueError", << "Channel not found: ", ToString(args.dialog_id) >>, ""))
            ELSE IF world.reply = "other"
                THEN left(Exc("TypeError", << "Unexpected result: ", "<class 'bool'>" >>, ""))
            ELSE IF args.unread /\ ~unread.ok
                THEN left(Exc("UnboundLocalError",
                              << "cannot access local variable 'dialog' where it is not associated with a value" >>, ""))
            ELSE on(Append(reqs, iter(IF args.unread THEN unread.limit ELSE args.limit)), response)
        ELSE LET yielded == IterMessages(world.history, reqs[2].limit)
             IN  IF n - 1 > Len(yielded) THEN left(NoExc)
                 ELSE on(reqs, response \o MessageItems(<< yielded[n - 1] >>))

\* The body from its n-th resumption to its end.
RECURSIVE ListMessagesFrom(_, _, _, _, _)
ListMessagesFrom(args, world, n, reqs, response) ==
    LET s == ListMessagesStep(args, world, n, reqs, response)
    IN  IF s.done THEN Ran(s.reqs, s.response, s.exc)
        ELSE ListMessagesFrom(args, world, n + 1, s.reqs, s.response)

\* The body of list_messages inside the session, from its first step to its
\* last; the handler has no except clause.
ListMessagesBody(args, world) == ListMessagesFrom(args, world, 0, << >>, << >>)

\* The runs of list_messages explored: a reply that is empty, of another type,
\* or a PeerDialogs with any entries up to the bound, over any history up to the
\* bound.
ListMessagesCases ==
    { [ fn |-> "list_messages",
        args |-> [ dialog_id |-> 1, unread |-> u, limit |-> l ],
        world |-> [ reply |-> r, dialogs |-> ds, history |-> h ] ] :
        u \in BOOLEAN, l \in { 0, 1, 100 }, r \in { "peer" },
        ds \in SeqsUpTo(PeerDialogPool, MaxDialogs), h \in SeqsUpTo(HistoryPool, MaxHistory) }
    \cup
    { [ fn |-> "list_messages",
        args |-> [ dialog_id |-> 1, unread |-> u, limit |-> 100 ],
        world |-> [ reply |-> r, dialogs |-> << >>, history |-> << >> ] ] :
        u \in BOOLEAN, r \in { "none", "other" } }

\* The names the tools module binds at its top level by import; its classes and
\* functions are bound there too and are looked up under their own names.
ModuleNames ==
    { "annotations", "logging", "sys", "t", "singledispatch", "EmbeddedResource",
      "ImageContent", "TextContent", "Tool", "BaseModel", "ConfigDict",
      "TelegramClient", "custom", "functions", "types", "create_client" }

\* Evaluating a global name inside a handler: NameError when the module binds
\* no such name.
NameError(name) == Exc("NameError", << "name '", name, "' is not defined" >>, "")
Bound(name) == name \in ModuleNames

\* str.isdigit on a text given as its characters: non-empty and digits only.
Digits == { "0", "1", "2", "3", "4", "5", "6", "7", "8", "9" }
IsDigit(chars) == chars # << >> /\ \A i \in 1..Len(chars) : chars[i] \in Digits

\* The sticker_path values explored: a file path and a sticker ID.
StickerPaths == { << "a", ".", "t", "g", "s" >>, << "4", "2" >> }

\* The body of send_sticker inside the session: the file sent is an
\* InputDocument for a numeric sticker_path and the path otherwise; the
\* arguments of client.send_file are evaluated before the call, the attributes
\* list among them; every exception of the body becomes a failure item.
SendStickerBody(args, world) ==
    LET sticker == IF IsDigit(args.sticker_path)
                   THEN [ cls |-> "InputDocument", id |-> args.sticker_path ]
                   ELSE [ cls |-> "str", id |-> args.sticker_path ]
        send == [ op |-> "send_file", entity |-> args.dialog_id, file |-> sticker,
                  silent |-> args.silent, reply_to |-> args.reply_to ]
        failed(e) == << Text(<< "Failed to send sticker: " >> \o e.msg) >>
    IN  IF ~Bound("DocumentAttributeSticker")
            THEN Ran(<< >>, failed(NameError("DocumentAttributeSticker")), NoExc)
        ELSE IF world.accepts
            THEN Ran(<< send >>,
                     << Text(<< "Sticker sent successfully. Message ID: ",
                                ToString(world.message_id) >>) >>, NoExc)
        ELSE Ran(<< send >>, failed(BackendFailure(world.failure)), NoExc)

\* The runs of send_sticker explored: a path or an ID, with and without
\* reply_to and silent, against a backend that accepts the send or refuses it.
SendStickerCases ==
    { [ fn |-> "send_sticker",
        args |-> [ dialog_id |-> 1, sticker_path |-> p, reply_to |-> r, silent |-> s ],
        world |-> [ accepts |-> a, message_id |-> 7, failure |-> m ] ] :
        p \in StickerPaths, r \in { None, Some(5) }, s \in BOOLEAN,
        a \in BOOLEAN, m \in BackendMessages }

\* The action texts explored, and str.lower on them.
ActionTexts == { "kick", "ban", "Ban", "unban", "mute" }
Lower(s) == IF s = "Ban" THEN "ban" ELSE s

\* The truth value of an optional integer: None and 0 are false.
Truthy(opt) == opt # None /\ opt[1] # 0

\* The body of manage_user inside the session: both entities are resolved
\* first; a ban with a truthy ban_duration computes its expiry from time.time(),
\* one without has no expiry; every exception of the body becomes a failure item.
ManageUserBody(args, world) ==
    LET getChat == [ op |-> "get_entity", entity |-> args.chat_id ]
        getUser == [ op |-> "get_entity", entity |-> args.user_id ]
        edit(until, view) == [ op |-> "EditBannedRequest", channel |-> args.chat_id,
                               participant |-> args.user_id, until_date |-> until,
                               view_messages |-> view ]
        kick == [ op |-> "kick_participant", chat |-> args.chat_id, user |-> args.user_id ]
        failed(e) == << Text(<< "Failed to ", args.action, " user: " >> \o e.msg) >>
        refused == failed(BackendFailure(world.failure))
        uid == ToString(args.user_id)
        action == Lower(args.action)
    IN  IF ~world.chatOk THEN Ran(<< getChat >>, refused, NoExc)
        ELSE IF ~world.userOk THEN Ran(<< getChat, getUser >>, refused, NoExc)
        ELSE IF action = "kick"
            THEN IF world.accepts
                 THEN Ran(<< getChat, getUser, kick >>,
                          << Text(<< "Successfully kicked user ", uid, " from the chat" >>) >>, NoExc)
                 ELSE Ran(<< getChat, getUser, kick >>, refused, NoExc)
        ELSE IF action = "ban"
            THEN IF Truthy(args.ban_duration) /\ ~Bound("time")
                     THEN Ran(<< getChat, getUser >>, failed(NameError("time")), NoExc)
                 ELSE LET until == IF Truthy(args.ban_duration)
                                   THEN Some(world.now + args.ban_duration[1]) ELSE None
                          duration_text ==
                              IF Truthy(args.ban_duration)
                              THEN << " for ", ToString(args.ban_duration[1]), " seconds" >>
                              ELSE << " permanently" >>
                      IN  IF world.accepts
                          THEN Ran(<< getChat, getUser, edit(until, TRUE) >>,
                                   << Text(<< "Successfully banned user ", uid >> \o duration_text) >>,
                                   NoExc)
                          ELSE Ran(<< getChat, getUser, edit(until, TRUE) >>, refused, NoExc)
        ELSE IF action = "unban"
            THEN IF world.accepts
                 THEN Ran(<< getChat, getUser, edit(None, FALSE) >>,
                          << Text(<< "Successfully unbanned user ", uid >>) >>, NoExc)
                 ELSE Ran(<< getChat, getUser, edit(None, FALSE) >>, refused, NoExc)
        ELSE Ran(<< getChat, getUser >>,
                 << Text(<< "Invalid action. Use 'kick', 'ban', or 'unban'" >>) >>, NoExc)

\* The runs of manage_user explored: every action text, with no duration, a
\* duration of zero and a positive one, against a backend that resolves or not
\* each entity and accepts or refuses the change.
ManageUserCases ==
    { [ fn |-> "manage_user",
        args |-> [ chat_id |-> 1, user_id |-> 9, action |-> a, ban_duration |-> d ],
        world |-> [ chatOk |-> c, userOk |-> u, accepts |-> ok, now |-> 1000,
                    failure |-> "PEER_ID_INVALID" ] ] :
        a \in ActionTexts, d \in { None, Some(0), Some(60) },
        c \in BOOLEAN, u \in BOOLEAN, ok \in BOOLEAN }

\* The request classes of telethon's functions modules, among the names the
\* handlers modelled here look up there: the library names every request class
\* with the suffix Request, as in messages.GetPeerDialogsRequest and
\* channels.EditBannedRequest that list_messages and manage_user use.
TelethonRequests ==
    { << "messages", "GetPeerDialogsRequest" >>, << "channels", "EditBannedRequest" >>,
      << "channels", "EditPhotoRequest" >>, << "channels", "EditTitleRequest" >>,
      << "channels", "GetFullChannelRequest" >>, << "channels", "CreateChannelRequest" >>,
      << "channels", "EditAdminRequest" >>, << "messages", "SetHistoryTTLRequest" >>,
      << "messages", "ExportChatInviteRequest" >>,
      << "messages", "EditChatDefaultBannedRightsRequest" >> }

\* Looking an attribute up on one of the functions modules: AttributeError when
\* the module has none of that name.
HasRequest(module, attr) == << module, attr >> \in TelethonRequests
AttributeError(module, attr) ==
    Exc("AttributeError",
        << "module 'telethon.tl.functions.", module, "' has no attribute '", attr, "'" >>, "")

\* The eleven permissions of SetChatPermissions, in the order of its fields.
Permissions ==
    << "send_messages", "send_media", "send_stickers", "send_gifs", "send_games",
       "send_inline", "embed_links", "send_polls", "change_info", "invite_users",
       "pin_messages" >>
PermissionNames == { Permissions[i] : i \in 1..Len(Permissions) }

\* The banned rights built from the arguments and the current rights: the
\* negation of an argument that is given, the current right for one that is not.
NewRights(args, current) ==
    [ p \in PermissionNames |->
        IF args[p] # None THEN ~args[p][1] ELSE current[p] ]

\* The body of set_chat_permissions inside the session: resolve the chat, read
\* its current default banned rights, build the new rights, send one update;
\* every exception of the body becomes a failure item.
SetChatPermissionsBody(args, world) ==
    LET getChat == [ op |-> "get_entity", entity |-> args.chat_id ]
        read == [ op |-> "GetFullChannel", channel |-> args.chat_id ]
        update == [ op |-> "EditChatDefaultBannedRights", peer |-> args.chat_id,
                    banned_rights |-> NewRights(args, world.current) ]
        failed(e) == << Text(<< "Failed to set chat permissions: " >> \o e.msg) >>
        refused == failed(BackendFailure(world.failure))
    IN  IF ~world.chatOk THEN Ran(<< getChat >>, refused, NoExc)
        ELSE IF ~HasRequest("channels", "GetFullChannel")
            THEN Ran(<< getChat >>, failed(AttributeError("channels", "GetFullChannel")), NoExc)
        ELSE IF ~world.readOk THEN Ran(<< getChat, read >>, refused, NoExc)
        ELSE IF ~HasRequest("messages", "EditChatDefaultBannedRights")
            THEN Ran(<< getChat, read >>,
                     failed(AttributeError("messages", "EditChatDefaultBannedRights")), NoExc)
        ELSE IF ~world.accepts THEN Ran(<< getChat, read, update >>, refused, NoExc)
        ELSE Ran(<< getChat, read, update >>,
                 << Text(<< "Successfully updated chat permissions" >>) >>, NoExc)

\* The permission arguments explored: none given, one given with either value,
\* all given with the same value.
PermissionArgs ==
    { [ p \in PermissionNames |-> None ] }
    \cup { [ p \in PermissionNames |-> IF p = q THEN Some(v) ELSE None ] :
               q \in PermissionNames, v \in BOOLEAN }
    \cup { [ p \in PermissionNames |-> Some(v) ] : v \in BOOLEAN }

\* The runs of set_chat_permissions explored, over a chat whose current rights
\* ban everything, nothing, or sending messages only.
SetChatPermissionsCases ==
    { [ fn |-> "set_chat_permissions",
        args |-> [ chat_id |-> 1 ] @@ perms,
        world |-> [ chatOk |-> c, readOk |-> r, accepts |-> ok, current |-> cur0,
                    failure |-> "PEER_ID_INVALID" ] ] :
        perms \in PermissionArgs, c \in BOOLEAN, r \in BOOLEAN, ok \in BOOLEAN,
        cur0 \in { [ p \in PermissionNames |-> TRUE ], [ p \in PermissionNames |-> FALSE ],
                   [ p \in PermissionNames |-> p = "send_messages" ] } }

\* The users a CreateChannel call may name.
UserPool == { "ann", "bob" }

\* The messages the backends of the runs explored refuse the users of a list of
\* n with, by their place in the list: one message for all, or two in turn.
RefusalPatterns(n) ==
    { [ i \in 1..n |-> "FLOOD_WAIT_30" ],
      [ i \in 1..n |-> IF i % 2 = 1 THEN "PEER_ID_INVALID" ELSE "FLOOD_WAIT_30" ] }

\* A loop that ends at the first user it fails on.
RECURSIVE AddAdmins_StopsAtFailure(_, _, _, _, _)
AddAdmins_StopsAtFailure(args, world, k, reqs, response) ==
    IF k > Len(args.users) THEN Ran(reqs, response, NoExc)
    ELSE LET user == args.users[k]
             resolve == [ op |-> "get_entity", entity |-> user ]
             warning(e) ==
                 Text(<< "Warning: Failed to add user ", user, " as admin: " >> \o e.msg)
         IN  IF user \notin world.resolves
                 THEN Ran(Append(reqs, resolve),
                          Append(response, warning(BackendFailure(world.refusal[k]))), NoExc)
             ELSE Ran(Append(reqs, resolve),
                      Append(response, warning(AttributeError("channels", "EditAdmin"))), NoExc)

\* The `for user in args.users` loop of create_channel from the k-th user on:
\* resolve the user, then promote it; an exception of either step becomes one
\* warning item and the loop goes on. A backend that refuses the k-th user does
\* so with a message of its own for that user.
RECURSIVE AddAdmins(_, _, _, _, _)
AddAdmins(args, world, k, reqs, response) ==
    IF k > Len(args.users) THEN Ran(reqs, response, NoExc)
    ELSE LET user == args.users[k]
             resolve == [ op |-> "get_entity", entity |-> user ]
             promote == [ op |-> "EditAdmin", channel |-> world.channel_id, user_id |-> user,
                          rank |-> "Admin" ]
             warning(e) ==
                 Text(<< "Warning: Failed to add user ", user, " as admin: " >> \o e.msg)
             refused == warning(BackendFailure(world.refusal[k]))
         IN  IF user \notin world.resolves
                 THEN AddAdmins(args, world, k + 1, Append(reqs, resolve), Append(response, refused))
             ELSE IF ~HasRequest("channels", "EditAdmin")
                 THEN AddAdmins(args, world, k + 1, Append(reqs, resolve),
                                Append(response, warning(AttributeError("channels", "EditAdmin"))))
             ELSE IF user \notin world.promotes
                 THEN AddAdmins(args, world, k + 1, reqs \o << resolve, promote >>,
                                Append(response, refused))
             ELSE AddAdmins(args, world, k + 1, reqs \o << resolve, promote >>, response)

\* The item of a channel created, with its invite link when it is private.
CreatedItem(args, world, link) ==
    Text(<< "Channel '", args.title, "' created successfully.\n", "ID: ",
            ToString(world.channel_id) >> \o link)

\* create_channel once the channel is created: add the users, set the
\* auto-delete period when one is given, export an invite link when the channel
\* is private, append the item of the channel created; an exception outside the
\* users loop becomes the failure item, after whatever the response holds by
\* then.
AfterCreation(args, world, create) ==
    LET ttl == [ op |-> "SetHistoryTTL", peer |-> world.channel_id, period |-> args.ttl_period ]
        invite == [ op |-> "ExportChatInvite", peer |-> world.channel_id ]
        failed(e) == Text(<< "Failed to create channel: " >> \o e.msg)
        refused == failed(BackendFailure(world.failure))
        added == AddAdmins(args, world, 1, << create >>, << >>)
        timed == IF ~Truthy(args.ttl_period) THEN added
                 ELSE IF ~HasRequest("messages", "SetHistoryTTL")
                     THEN Ran(added.reqs, added.response,
                              AttributeError("messages", "SetHistoryTTL"))
                 ELSE IF ~world.ttlOk
                     THEN Ran(Append(added.reqs, ttl), added.response,
                              BackendFailure(world.failure))
                 ELSE Ran(Append(added.reqs, ttl), added.response, NoExc)
    IN  IF timed.exc # NoExc
            THEN Ran(timed.reqs, Append(timed.response, failed(timed.exc)), NoExc)
        ELSE IF ~args.private
            THEN Ran(timed.reqs, Append(timed.response, CreatedItem(args, world, << >>)), NoExc)
        ELSE IF ~HasRequest("messages", "ExportChatInvite")
            THEN Ran(timed.reqs,
                     Append(timed.response, failed(AttributeError("messages", "ExportChatInvite"))),
                     NoExc)
        ELSE IF ~world.inviteOk
            THEN Ran(Append(timed.reqs, invite), Append(timed.response, refused), NoExc)
        ELSE Ran(Append(timed.reqs, invite),
                 Append(timed.response,
                        CreatedItem(args, world, << "\n", "Invite Link: ", world.link >>)),
                 NoExc)

\* The body of create_channel inside the session: the channel is created, and
\* the rest follows on the channel the backend returned; an exception of the
\* creation, the lookup of its request class included, becomes the failure item.
CreateChannelBody(args, world) ==
    LET create == [ op |-> "CreateChannel", title |-> args.title, broadcast |-> TRUE,
                    megagroup |-> FALSE ]
        failed(e) == Text(<< "Failed to create channel: " >> \o e.msg)
    IN  IF ~HasRequest("channels", "CreateChannel")
            THEN Ran(<< >>, << failed(AttributeError("channels", "CreateChannel")) >>, NoExc)
        ELSE IF ~world.createOk
            THEN Ran(<< create >>, << failed(BackendFailure(world.failure)) >>, NoExc)
        ELSE AfterCreation(args, world, create)

\* The runs of create_channel explored: public and private, with and without
\* an auto-delete period, any list of users up to the bound, against a backend
\* that accepts or refuses each step, resolves and promotes any of the users,
\* and refuses the users it refuses with one message or with two in turn.
CreateChannelCases ==
    UNION { { [ fn |-> "create_channel",
                args |-> [ title |-> "news", about |-> None, private |-> p, users |-> us,
                           ttl_period |-> ttl ],
                world |-> [ createOk |-> c, channel_id |-> 77, resolves |-> rs, promotes |-> ps,
                            ttlOk |-> tk, inviteOk |-> ik, link |-> "https://t.me/+abc",
                            failure |-> "FLOOD_WAIT_30", refusal |-> rf ] ] :
                p \in BOOLEAN, ttl \in { None, Some(60) },
                c \in BOOLEAN, rs \in SUBSET UserPool, ps \in { {}, UserPool },
                tk \in BOOLEAN, ik \in BOOLEAN,
                rf \in RefusalPatterns(Len(us)) } :
            us \in SeqsUpTo(UserPool, MaxUsers) }

\* "\n".join(lines), each line given as its tokens.
RECURSIVE JoinLines(_)
JoinLines(lines) ==
    IF lines = << >> THEN << >>
    ELSE IF Len(lines) = 1 THEN lines[1]
    ELSE lines[1] \o << "\n" >> \o JoinLines(Tail(lines))

\* A loop that gives up at the first user it fails on: the exception leaves the
\* loop and becomes the failure item of the handler.
RECURSIVE InviteUsers_StopsAtFailure(_, _, _, _, _)
InviteUsers_StopsAtFailure(args, world, k, reqs, results) ==
    IF k > Len(args.users) THEN Ran(reqs, << Text(JoinLines(results)) >>, NoExc)
    ELSE LET user == args.users[k]
             resolve == [ op |-> "get_entity", entity |-> user ]
             failed(e) == << Text(<< "Failed to process invites: " >> \o e.msg) >>
         IN  IF user \notin world.resolves
                 THEN Ran(Append(reqs, resolve), failed(BackendFailure(world.refusal[k])), NoExc)
             ELSE Ran(Append(reqs, resolve), failed(AttributeError("channels", "InviteToChannel")),
                      NoExc)

\* The `for user in args.users` loop of invite_to_chat from the k-th user on:
\* resolve the user, then invite it; an exception of either step, the lookup of
\* the request class included, becomes the line of that user and the loop goes
\* on; after the last user the lines are joined into the one item returned.
RECURSIVE InviteUsers(_, _, _, _, _)
InviteUsers(args, world, k, reqs, results) ==
    IF k > Len(args.users) THEN Ran(reqs, << Text(JoinLines(results)) >>, NoExc)
    ELSE LET user == args.users[k]
             resolve == [ op |-> "get_entity", entity |-> user ]
             invite == [ op |-> "InviteToChannel", channel |-> args.chat_id, users |-> << user >> ]
             failed(e) == << "Failed to invite ", user, ": " >> \o e.msg
             refused == failed(BackendFailure(world.refusal[k]))
             invited == << "Successfully invited ", user >>
         IN  IF user \notin world.resolves
                 THEN InviteUsers(args, world, k + 1, Append(reqs, resolve), Append(results, refused))
             ELSE IF ~HasRequest("channels", "InviteToChannel")
                 THEN InviteUsers(args, world, k + 1, Append(reqs, resolve),
                                  Append(results, failed(AttributeError("channels", "InviteToChannel"))))
             ELSE IF user \notin world.invites
                 THEN InviteUsers(args, world, k + 1, reqs \o << resolve, invite >>,
                                  Append(results, refused))
             ELSE InviteUsers(args, world, k + 1, reqs \o << resolve, invite >>,
                              Append(results, invited))

\* The body of invite_to_chat inside the session: the chat is resolved, then
\* the users are gone through; an exception outside the users loop becomes the
\* failure item.
InviteToChatBody(args, world) ==
    LET getChat == [ op |-> "get_entity", entity |-> args.chat_id ]
    IN  IF ~world.chatOk
            THEN Ran(<< getChat >>,
                     << Text(<< "Failed to process invites: " >> \o BackendFailure(world.failure).msg) >>,
                     NoExc)
        ELSE InviteUsers(args, world, 1, << getChat >>, << >>)

\* The backends a call of invite_to_chat with these users is run against: the
\* chat resolves or is refused with any of the messages, any of the users
\* resolve, all or none can be invited, and the user at each place of the list,
\* when it is refused, is refused with any of the messages.
InviteWorlds(users) ==
    { [ chatOk |-> c, resolves |-> rs, invites |-> iv, failure |-> m, refusal |-> rf ] :
        c \in BOOLEAN, rs \in SUBSET { users[i] : i \in 1..Len(users) },
        iv \in { {}, { users[i] : i \in 1..Len(users) } }, m \in BackendMessages,
        rf \in [ 1..Len(users) -> BackendMessages ] }

\* The runs of invite_to_chat explored: any list of users up to the bound,
\* against a backend that resolves the chat or not, resolves any of the users,
\* can invite all or none, and refuses with one message or with two in turn.
InviteToChatCases ==
    UNION { { [ fn |-> "invite_to_chat", args |-> [ chat_id |-> 1, users |-> us ],
                world |-> [ chatOk |-> c, resolves |-> rs, invites |-> iv,
                            failure |-> "FLOOD_WAIT_30", refusal |-> rf ] ] :
                c \in BOOLEAN, rs \in SUBSET { us[i] : i \in 1..Len(us) },
                iv \in { {}, { us[i] : i \in 1..Len(us) } },
                rf \in RefusalPatterns(Len(us)) } :
            us \in SeqsUpTo(UserPool, MaxUsers) }

\* The handler runs explored, handler by handler.
HandlerCases ==
    << ListDialogsCases, ListMessagesCases, SendStickerCases, ManageUserCases,
       SetChatPermissionsCases, CreateChannelCases, InviteToChatCases >>

\* ------------------------------------------------ the handlers at large

\* The handlers whose body has no except clause: a failure inside the held
\* session leaves the handler.
Propagating(fn) == FailPhrase(fn) = ""

\* bool(v) of the value of a field.
IsTrue(v) ==
    CASE v.t = "bool" -> v.s = "True"
      [] v.t = "int" -> v.s # "0"
      [] v.t = "str" -> v.s # ""
      [] v.t = "list" -> v.s # "[]"
      [] OTHER -> FALSE

\* A request class the body looks up after it has made `after` backend calls:
\* nothing when the functions module has it, the failure of the lookup otherwise.
Lookup(after, module, attr) ==
    IF HasRequest(module, attr) THEN << >>
    ELSE << [ after |-> after, exc |-> AttributeError(module, attr) ] >>

\* The names the body of a handler evaluates and cannot resolve, in the order
\* the body comes to them on the instance it runs on, each with the number of
\* backend calls the body has made by then. The body gets no further than the
\* first. (The lookups inside the per-user try blocks of create_channel and
\* invite_to_chat do not leave the body and are not listed.)
Unresolved(fn, inst) ==
    CASE fn = "send_sticker" ->
           IF Bound("DocumentAttributeSticker") THEN << >>
           ELSE << [ after |-> 0, exc |-> NameError("DocumentAttributeSticker") ] >>
      [] fn = "create_group" ->
           (IF IsTrue(inst["supergroup"]) THEN Lookup(1, "messages", "MigrateChat") ELSE << >>)
           \o (IF IsTrue(inst["about"])
                THEN Lookup(IF IsTrue(inst["supergroup"]) THEN 3 ELSE 1, "messages", "EditChatAbout")
                ELSE << >>)
           \o (IF IsTrue(inst["ttl_period"])
                THEN Lookup((IF IsTrue(inst["supergroup"]) THEN 3 ELSE 1)
                                + (IF IsTrue(inst["about"]) THEN 1 ELSE 0),
                            "messages", "SetHistoryTTL")
                ELSE << >>)
      [] fn = "create_channel" -> Lookup(0, "channels", "CreateChannel")
      [] fn = "get_chat_members" -> Lookup(0, "channels", "GetParticipants")
      [] fn = "get_chat_permissions" -> Lookup(1, "channels", "GetFullChannel")
      [] fn = "update_chat_photo" -> Lookup(1, "channels", "EditPhotoRequest")
      [] fn = "update_chat_info" ->
           (IF IsTrue(inst["title"]) THEN Lookup(1, "channels", "EditTitleRequest") ELSE << >>)
           \o (IF IsTrue(inst["about"])
                THEN Lookup(IF IsTrue(inst["title"]) THEN 2 ELSE 1, "channels", "EditAboutRequest")
                ELSE << >>)
      [] fn = "set_chat_permissions" ->
           Lookup(1, "channels", "GetFullChannel")
           \o Lookup(2, "messages", "EditChatDefaultBannedRights")
      [] fn = "manage_user" ->
           IF Lower(inst["action"].s) = "ban"
           THEN (IF IsTrue(inst["ban_duration"]) /\ ~Bound("time")
                 THEN << [ after |-> 2, exc |-> NameError("time") ] >> ELSE << >>)
                \o Lookup(2, "channels", "EditBannedRequest")
           ELSE IF Lower(inst["action"].s) = "unban"
           THEN Lookup(2, "channels", "EditBannedRequest")
           ELSE << >>
      [] fn = "get_banned_users" -> Lookup(1, "channels", "GetParticipants")
      [] fn = "leave_chat" -> Lookup(1, "channels", "LeaveChannel")
      [] fn = "get_chat_invite_link" ->
           IF IsTrue(inst["new_link"]) THEN Lookup(1, "messages", "ExportChatInviteRequest")
           ELSE Lookup(1, "channels", "GetFullChannel")
      [] fn = "list_messages" -> Lookup(0, "messages", "GetPeerDialogsRequest")
      [] OTHER -> << >>

\* The body has made n backend calls and can only raise: the next thing it
\* evaluates is a name it cannot resolve.
MustRaise(fn, inst, n) ==
    Unresolved(fn, inst) # << >> /\ Unresolved(fn, inst)[1].after = n

\* What the body of a handler raises by itself after n backend calls, given the
\* instance it runs on: the failure of a name it cannot resolve, and in
\* list_messages, on the reply to its first call, the error for a falsy reply,
\* for a reply of another type, and (unread listing, reply without entries) for
\* the loop variable that was never bound.
BodyRaises(fn, inst, n) ==
    (IF MustRaise(fn, inst, n) THEN { Unresolved(fn, inst)[1].exc } ELSE {})
    \cup
    (IF fn = "list_messages" /\ n = 1
     THEN { Exc("ValueError", << "Channel not found: ", inst["dialog_id"].s >>, ""),
            Exc("TypeError", << "Unexpected result: ", "<class 'bool'>" >>, "") }
          \cup (IF IsTrue(inst["unread"])
                THEN { Exc("UnboundLocalError",
                           << "cannot access local variable 'dialog' where it is not associated with a value" >>, "") }
                ELSE {})
     ELSE {})

\* The item a handler's own except clause turns a failure into.
FailItem(fn, inst, e) ==
    IF fn = "manage_user"
    THEN Text(<< "Failed to ", inst["action"].s, " user: " >> \o e.msg)
    ELSE Text(<< FailPhrase(fn) >> \o e.msg)

\* The integer a field's value of type int stands for.
IntOf(v) == CHOOSE n \in 0..100 : ToString(n) = v.s

\* The backend the calls at large are explored against: it holds none, the
\* first or both of these dialogs, and of this history none, the first or both
\* messages; the dialog asked about has two unread messages.
SomeDialogs ==
    << [ name |-> "Bob", id |-> 2, unread_count |-> 3, unread_mentions_count |-> 1 ],
       [ name |-> "Ann", id |-> 1, unread_count |-> 0, unread_mentions_count |-> 0 ] >>
SomeHistory ==
    << [ isMessage |-> TRUE, text |-> << "hello" >> ],
       [ isMessage |-> TRUE, text |-> << "bye" >> ] >>

\* The handlers that go through a list of users, each in a try block of its own.
PerUser == { "invite_to_chat", "create_channel" }

\* The arguments such a handler reads off the instance it is given.
BodyArgs(fn, inst) ==
    IF fn = "invite_to_chat"
    THEN [ chat_id |-> IntOf(inst["chat_id"]), users |-> ItemsOf(inst["users"]) ]
    ELSE [ title |-> inst["title"].s, private |-> IsTrue(inst["private"]),
           users |-> ItemsOf(inst["users"]),
           ttl_period |-> IF inst["ttl_period"].t = "none" THEN None
                          ELSE Some(IntOf(inst["ttl_period"])) ]

\* The backends its body is run against: every step outside the users loop is
\* accepted or refused, any of the users resolve, all or none can be invited or
\* promoted.
BodyWorlds(fn, users) ==
    IF fn = "invite_to_chat" THEN InviteWorlds(users)
    ELSE { [ createOk |-> c, channel_id |-> 77, resolves |-> rs, promotes |-> ps,
             ttlOk |-> c, inviteOk |-> c, link |-> "https://t.me/+abc", failure |-> m,
             refusal |-> rf ] :
             c \in BOOLEAN, rs \in SUBSET { users[i] : i \in 1..Len(users) },
             ps \in { {}, { users[i] : i \in 1..Len(users) } }, m \in BackendMessages,
             rf \in [ 1..Len(users) -> BackendMessages ] }

\* A backend that refuses nothing.
Willing(fn, w, users) ==
    /\ w.resolves = { users[i] : i \in 1..Len(users) }
    /\ IF fn = "invite_to_chat" THEN w.chatOk /\ w.invites = w.resolves
       ELSE w.createOk /\ w.promotes = w.resolves

BodyOf(fn, args, w) ==
    IF fn = "invite_to_chat" THEN InviteToChatBody(args, w) ELSE CreateChannelBody(args, w)

\* The runs the body of such a handler may take on the instance it is given,
\* from its first request to what the `async with` block is left with: one for
\* each way the backend may answer.
BodyRuns(fn, inst) ==
    { BodyOf(fn, BodyArgs(fn, inst), w) : w \in BodyWorlds(fn, ItemsOf(inst["users"])) }

\* The backend calls the body of a handler awaits, one after the other, when
\* each is answered and no answer makes the body return early (the two
\* listings and the handlers that go through a list of users apart).
BackendCalls(fn, inst) ==
    CASE fn = "create_group" ->
           1 + (IF IsTrue(inst["supergroup"]) THEN 2 ELSE 0)
             + (IF IsTrue(inst["about"]) THEN 1 ELSE 0)
             + (IF IsTrue(inst["ttl_period"]) THEN 1 ELSE 0)
      [] fn = "update_chat_info" ->
           1 + (IF IsTrue(inst["title"]) THEN 1 ELSE 0) + (IF IsTrue(inst["about"]) THEN 1 ELSE 0)
      [] fn = "manage_user" ->
           IF Lower(inst["action"].s) \in { "kick", "ban", "unban" } THEN 3 ELSE 2
      [] fn \in { "update_chat_photo", "set_chat_permissions" } -> 3
      [] fn \in { "download_media", "get_chat_permissions", "get_banned_users", "leave_chat",
                  "get_chat_invite_link" } -> 2
      [] OTHER -> 1

\* The backend calls a handler has made when it returns early on an answer.
EarlyAfter(fn) == IF fn = "get_banned_users" THEN 2 ELSE 1

\* The runs of a body to its end, over a backend that answers every call: the
\* number of backend calls made and the response left. list_dialogs asks the
\* iteration for one dialog after the other, once more than it is given, and
\* returns one item per dialog listed; list_messages sends its query and then
\* asks for one message after the other, once more than it is given, and returns
\* one item per message with a text; invite_to_chat and create_channel make
\* the requests of their body; every other handler makes its calls and appends
\* exactly one item.
SuccessRuns(fn, inst) ==
    CASE fn = "list_dialogs" ->
           { [ n |-> k + 1,
               items |-> ListDialogsBody([ unread |-> IsTrue(inst["unread"]),
                                           archived |-> IsTrue(inst["archived"]),
                                           ignore_pinned |-> IsTrue(inst["ignore_pinned"]) ],
                                         [ dialogs |-> SubSeq(SomeDialogs, 1, k),
                                           failAt |-> 0 ]).response ] :
                 k \in 0..Len(SomeDialogs) }
      [] fn = "list_messages" ->
           { LET ran == ListMessagesBody([ dialog_id |-> IntOf(inst["dialog_id"]),
                                           unread |-> IsTrue(inst["unread"]),
                                           limit |-> IntOf(inst["limit"]) ],
                                         [ reply |-> "peer",
                                           dialogs |-> << [ peer |-> IntOf(inst["dialog_id"]),
                                                            unread_count |-> 2 ] >>,
                                           history |-> SubSeq(SomeHistory, 1, k) ])
             IN  [ n |-> 2 + Len(IterMessages(SubSeq(SomeHistory, 1, k), ran.reqs[2].limit)),
                   items |-> ran.response ] :
                 k \in 0..Len(SomeHistory) }
      [] fn \in PerUser ->
           { LET ran == BodyOf(fn, BodyArgs(fn, inst), w)
             IN  [ n |-> Len(ran.reqs), items |-> ran.response ] :
                 w \in { x \in BodyWorlds(fn, ItemsOf(inst["users"])) :
                             Willing(fn, x, ItemsOf(inst["users"])) } }
      [] OTHER -> { [ n |-> BackendCalls(fn, inst), items |-> << Text(<< fn, ": done" >>) >> ] }

\* The responses a handler may return when its body ran to its end.
SuccessItems(fn, inst) == { r.items : r \in SuccessRuns(fn, inst) }

\* The items of an early return inside the held session.
EarlyItems(fn) == << Text(<< fn, ": nothing to report" >>) >>

\* What a handler leaves its `async with` block with.
NoPending == [ kind |-> "", items |-> << >>, exc |-> NoExc ]
PendingItems(items) == [ kind |-> "items", items |-> items, exc |-> NoExc ]
PendingExc(e) == [ kind |-> "exc", items |-> << >>, exc |-> e ]

\* What the `async with` block is left with at the end of a run of the body.
LeftWith(ran) == IF ran.exc # NoExc THEN PendingExc(ran.exc) ELSE PendingItems(ran.response)

\* A handler without an except clause of its own.
OnBodyFailure_Propagates(fn, inst, e) == PendingExc(e)

\* A failure inside the held session: caught by the handler's except clause, or
\* on its way out of the handler.
OnBodyFailure(fn, inst, e) ==
    IF Propagating(fn) THEN PendingExc(e)
    ELSE PendingItems(<< FailItem(fn, inst, e) >>)

\* The runs the body of a handler may take inside the held session, each with
\* the number of backend calls it makes and what the `async with` block is left
\* with. A body runs to its end when every call is answered, returns early on an
\* answer, is failed by the backend at any of its calls, or raises by itself; a
\* body that cannot resolve a name it needs gets no further than that name.
\* The runs of a handler that goes through a list of users are those of its
\* body, in which a failure inside the try block of a user does not end the run.
HandlerRuns(fn, inst) ==
    IF fn \in PerUser
    THEN { [ n |-> Len(ran.reqs), left |-> LeftWith(ran) ] : ran \in BodyRuns(fn, inst) }
    ELSE LET unres == Unresolved(fn, inst)
             done == IF unres = << >> THEN SuccessRuns(fn, inst) ELSE {}
             most == IF unres # << >> THEN unres[1].after
                     ELSE CHOOSE n \in { r.n : r \in done } : \A r \in done : r.n <= n
         IN  { [ n |-> r.n, left |-> PendingItems(r.items) ] : r \in done }
             \cup { [ n |-> EarlyAfter(fn), left |-> PendingItems(EarlyItems(fn)) ] :
                       x \in IF unres = << >> /\ fn \in EarlyReturning THEN { fn } ELSE {} }
             \cup { [ n |-> k, left |-> OnBodyFailure(fn, inst, BackendFailure(m)) ] :
                       k \in 1..most, m \in BackendMessages }
             \cup UNION { { [ n |-> k, left |-> OnBodyFailure(fn, inst, e) ] :
                               e \in BodyRaises(fn, inst, k) } : k \in 0..most }

\* ------------------------------------------------------------ call_tool

\* An except clause that lets the failure through as it is.
WrapException_Reraise(e) == e

\* An except clause that ends the process instead of raising an error.
WrapException_Exit(e) == Exc("SystemExit", << "1" >>, e.type)

\* server.call_tool, lines 83-85: the except clause around construction and
\* execution.
WrapException(e) ==
    Exc("RuntimeError", << "Caught Exception. Error: " >> \o e.msg, e.type)

\* No shape check.
IsMapping_Any(shape) == TRUE

\* Line 73: isinstance(arguments, dict).
IsMapping(shape) == shape = "dict"

\* call_tool with an unknown name answered by an empty result.
CallToolEntry_UnknownReturnsNothing(m, reg, req) ==
    IF ~IsMapping(req.shape)
    THEN [ next |-> "returned", outcome |-> Raise(Exc("TypeError", << "arguments must be dictionary" >>, "")),
           constructed |-> 0, invoked |-> 0 ]
    ELSE IF MappingGet(m, req.name) = NoTool
    THEN [ next |-> "returned", outcome |-> Return(<< >>),
           constructed |-> 0, invoked |-> 0 ]
    ELSE LET a == tool_args(MappingGet(m, req.name), ArgsOf(req))
         IN  IF ~a.ok
             THEN [ next |-> "returned", outcome |-> Raise(WrapException(a.exc)),
                    constructed |-> 0, invoked |-> 0 ]
             ELSE IF RunnerFor(reg, a.cls) = "tool_runner"
             THEN [ next |-> "returned",
                    outcome |-> Raise(WrapException(
                        Exc("NotImplementedError", << "Unsupported type: ", a.cls >>, ""))),
                    constructed |-> 1, invoked |-> 1 ]
             ELSE [ next |-> "acquire", outcome |-> NoOutcome, constructed |-> 1, invoked |-> 1 ]

\* call_tool with the construction outside its try block.
CallToolEntry_ConstructOutsideTry(m, reg, req) ==
    IF ~IsMapping(req.shape)
    THEN [ next |-> "returned", outcome |-> Raise(Exc("TypeError", << "arguments must be dictionary" >>, "")),
           constructed |-> 0, invoked |-> 0 ]
    ELSE IF MappingGet(m, req.name) = NoTool
    THEN [ next |-> "returned", outcome |-> Raise(Exc("ValueError", << "Unknown tool: ", req.name >>, "")),
           constructed |-> 0, invoked |-> 0 ]
    ELSE LET a == tool_args(MappingGet(m, req.name), ArgsOf(req))
         IN  IF ~a.ok
             THEN [ next |-> "returned", outcome |-> Raise(a.exc),
                    constructed |-> 0, invoked |-> 0 ]
             ELSE IF RunnerFor(reg, a.cls) = "tool_runner"
             THEN [ next |-> "returned",
                    outcome |-> Raise(WrapException(
                        Exc("NotImplementedError", << "Unsupported type: ", a.cls >>, ""))),
                    constructed |-> 1, invoked |-> 1 ]
             ELSE [ next |-> "acquire", outcome |-> NoOutcome, constructed |-> 1, invoked |-> 1 ]

\* Lines 73-82 up to the start of the handler: what the call does before any
\* suspension point. next = "acquire" when a handler was entered.
\* The descriptor looked up and the keyword arguments are evaluated once, and so
\* is the construction.
CallToolEntry(m, reg, req) ==
    IF ~IsMapping(req.shape)
    THEN [ next |-> "returned", outcome |-> Raise(Exc("TypeError", << "arguments must be dictionary" >>, "")),
           constructed |-> 0, invoked |-> 0 ]
    ELSE IF MappingGet(m, req.name) = NoTool
    THEN [ next |-> "returned", outcome |-> Raise(Exc("ValueError", << "Unknown tool: ", req.name >>, "")),
           constructed |-> 0, invoked |-> 0 ]
    ELSE CHOOSE e \in
           { IF ~a.ok
             THEN [ next |-> "returned", outcome |-> Raise(WrapException(a.exc)),
                    constructed |-> 0, invoked |-> 0 ]
             ELSE IF RunnerFor(reg, a.cls) = "tool_runner"
             THEN [ next |-> "returned",
                    outcome |-> Raise(WrapException(
                        Exc("NotImplementedError", << "Unsupported type: ", a.cls >>, ""))),
                    constructed |-> 1, invoked |-> 1 ]
             ELSE [ next |-> "acquire", outcome |-> NoOutcome, constructed |-> 1, invoked |-> 1 ] :
             a \in { tool_args(tool, args) : tool \in { MappingGet(m, req.name) }, args \in { ArgsOf(req) } } } : TRUE

\* The handler and the instance of the call in progress.
CurClass == MappingGet(mapping, cur.name).name
CurRunner == RunnerFor(runners, CurClass)
CurInst == Construct(CurClass, ArgsOf(cur))

\* What call_tool returns or raises once the handler has left: the handler's
\* items, or its exception wrapped by the except clause.
CallToolExit(p) ==
    IF p.kind = "exc" THEN Raise(WrapException(p.exc)) ELSE Return(p.items)

\* The call-tool command, before it starts.
NoCli ==
    [ pc |-> "off",            \* "off", "parse", "invoke", "print", "exited"
      input |-> NoCliInput,    \* the options the command was started with
      calls |-> 0,             \* calls of server.call_tool the command has made
      printed |-> << >>,       \* the items the command has echoed, in order
      exitCode |-> -1 ]        \* the command's exit code, -1 while it has not exited

\* A handler run on its own, before it starts.
NoRun ==
    [ pc |-> "off",         \* "off", "acquire", "body", "release", "done"
      fn |-> "",            \* the handler that runs
      args |-> << >>,       \* the argument instance it runs on
      world |-> << >>,      \* what the backend holds and how it answers
      reqs |-> << >>,       \* the requests the handler has issued to the backend, in order
      response |-> << >>,   \* the handler's response list
      exc |-> NoExc,        \* the exception on its way out of the handler, or NoExc
      held |-> FALSE,       \* the handler holds the backend session
      at |-> 0,             \* how many times the body was resumed after a suspension
      out |-> NoOutcome ]   \* what the handler returned or raised

\* ----------------------------------------------------------------- Init

\* The state once the modules are imported: the registry is built at import of
\* the server module, the handlers are registered at import of the tools module,
\* and the server has not opened its streams yet.
Init ==
    /\ srv = "Idle"
    /\ termCause = ""
    /\ LET b == BuildStep("empty")
       IN  /\ mapping = b.result
           /\ genStore = b.store
           /\ scans = b.scans
    /\ builds = 1
    /\ rebuilt = << >>
    /\ streams = "unopened"
    /\ runners = Registrations
    /\ sent = 0
    /\ closed = FALSE
    /\ taken = 0
    /\ inflight = 0
    /\ pc = "idle"
    /\ cur = NoReq
    /\ constructed = 0
    /\ invoked = 0
    /\ acquires = 0
    /\ held = FALSE
    /\ calls = 0
    /\ unheldCalls = 0
    /\ pending = NoPending
    /\ outcome = NoOutcome
    /\ responses = << >>
    /\ cli = NoCli
    /\ run = NoRun

registryVars == << mapping, runners >>
buildVars == << genStore, scans, builds, rebuilt >>
cliVars == << cli >>
handlerVars == << run >>

\* call_tool and the handlers run while the server serves a request, or while the
\* call-tool command waits for its call.
Running == srv = "Serving" \/ cli.pc = "invoke"
streamVars == << sent, closed >>
callVars == << constructed, invoked, acquires, held, calls, unheldCalls, pending, outcome >>

\* ------------------------------------------------------ the server loop

\* `async with stdio_server() as (read_stream, write_stream)`: entering the block
\* opens the streams.
StreamsOnEnter == "open"

\* A block that releases nothing.
StreamsOnExit_Kept(how) == "open"

\* Leaving the block, because app.run returned or because an exception left it,
\* releases the streams.
StreamsOnExit(how) == "released"

\* run_mcp_server enters stdio_server(): the streams are open.
Start ==
    /\ srv = "Idle"
    /\ srv' = "Negotiating"
    /\ streams' = StreamsOnEnter
    /\ UNCHANGED << handlerVars, termCause, registryVars, buildVars, cliVars, streamVars, taken, inflight, pc, cur, callVars, responses >>

\* app.run: the initialization handshake is done.
Handshake ==
    /\ srv = "Negotiating"
    /\ srv' = "Serving"
    /\ UNCHANGED << handlerVars, termCause, registryVars, buildVars, cliVars, streamVars, streams, taken, inflight, pc, cur, callVars, responses >>

\* The client writes one more request to the input stream.
ClientSend ==
    /\ ~closed
    /\ srv # "Terminated"
    /\ sent < MaxRequests
    /\ sent' = sent + 1
    /\ UNCHANGED << handlerVars, srv, termCause, registryVars, buildVars, cliVars, streams, closed, taken, inflight, pc, cur, callVars, responses >>

\* The client closes the input stream.
CloseInput ==
    /\ ~closed
    /\ srv # "Terminated"
    /\ closed' = TRUE
    /\ UNCHANGED << handlerVars, srv, termCause, registryVars, buildVars, cliVars, streams, sent, taken, inflight, pc, cur, callVars, responses >>

\* The loop reads the next request only when none is in progress.
CanReceive == pc = "idle"

\* A loop that takes requests while the handshake is still going on.
Accepting_DuringHandshake == srv \in { "Negotiating", "Serving" }

\* The loop takes requests once the handshake is done and until it ends.
Accepting == srv = "Serving"

\* The loop reads the next request from the input stream; a call names one of
\* `names`.
ReceiveOf(names) ==
    /\ Accepting
    /\ CanReceive
    /\ taken < sent
    /\ \E kind \in RequestKinds :
         \E name \in (IF kind = "call_tool" THEN names ELSE {""}) :
           \E shape \in (IF kind = "call_tool" THEN Shapes ELSE {""}) :
             \E p \in (IF shape = "dict" THEN Perturbations(name) ELSE { [pf |-> "", pv |-> Absent] }) :
               \E g \in (IF kind = "progress_notification" THEN ProgressInputs ELSE { NoProgress }) :
                 cur' = [ id |-> taken + 1, kind |-> kind, name |-> name,
                          shape |-> shape, pf |-> p.pf, pv |-> p.pv, prog |-> g ]
    /\ taken' = taken + 1
    /\ inflight' = inflight + 1
    /\ pc' = "dispatch"
    /\ constructed' = 0
    /\ invoked' = 0
    /\ acquires' = 0
    /\ calls' = 0
    /\ pending' = NoPending
    /\ outcome' = NoOutcome
    /\ UNCHANGED << handlerVars, srv, termCause, registryVars, buildVars, cliVars, streamVars, streams, held, unheldCalls, responses >>

Receive == ReceiveOf(RequestedNames)

\* What the loop does with an exception its request function raised: one that
\* derives from Exception becomes the request's error response; any other leaves
\* the loop.
Recovered(o) == o.kind # "raise" \/ IsException(o.exc.type)

\* The response written for an outcome.
ResponseOf(id, o) ==
    [ id |-> id, isError |-> (o.kind = "raise") ]

\* The loop writes the response of the request in progress, or is left by an
\* exception it does not recover.
Respond ==
    /\ srv = "Serving"
    /\ pc = "returned"
    /\ IF Recovered(outcome)
       THEN /\ responses' = Append(responses, ResponseOf(cur.id, outcome))
            /\ UNCHANGED << srv, termCause, streams >>
       ELSE /\ srv' = "Terminated"
            /\ termCause' = "escaped"
            /\ streams' = StreamsOnExit("escaped")
            /\ UNCHANGED responses
    /\ pc' = "idle"
    /\ cur' = NoReq
    /\ inflight' = inflight - 1
    /\ constructed' = 0
    /\ invoked' = 0
    /\ acquires' = 0
    /\ calls' = 0
    /\ pending' = NoPending
    /\ outcome' = NoOutcome
    /\ UNCHANGED << handlerVars, registryVars, buildVars, cliVars, streamVars, taken, held, unheldCalls >>

\* The input stream is at its end: the loop ends and the streams are released.
Terminate ==
    /\ srv = "Serving"
    /\ pc = "idle"
    /\ closed
    /\ taken = sent
    /\ srv' = "Terminated"
    /\ termCause' = "eof"
    /\ streams' = StreamsOnExit("eof")
    /\ UNCHANGED << handlerVars, registryVars, buildVars, cliVars, streamVars, taken, inflight, pc, cur, callVars, responses >>

\* The transport fails between two requests: the loop ends.
TransportFailure ==
    /\ srv = "Serving"
    /\ pc = "idle"
    /\ srv' = "Terminated"
    /\ termCause' = "transport"
    /\ streams' = StreamsOnExit("transport")
    /\ UNCHANGED << handlerVars, registryVars, buildVars, cliVars, streamVars, taken, inflight, pc, cur, callVars, responses >>

\* ------------------------------------------------- the request functions

Finish(o) ==
    /\ outcome' = o
    /\ pc' = "returned"
    /\ UNCHANGED << handlerVars, srv, termCause, registryVars, buildVars, cliVars, streamVars, streams, taken, inflight, cur,
                    constructed, invoked, acquires, held, calls, unheldCalls, pending, responses >>

Dispatching(kind) == Running /\ pc = "dispatch" /\ cur.kind = kind

list_prompts == Dispatching("list_prompts") /\ Finish(Return(<< >>))

list_resources == Dispatching("list_resources") /\ Finish(Return(<< >>))

\* A listing that asks the build step again instead of reading the mapping.
ListToolsResult_Rebuilds(m) ==
    LET again == BuildStep("exhausted").result
    IN  [ i \in 1..Len(again) |-> again[i].value ]

\* list(mapping.values()): the descriptors in the order of the mapping.
ListToolsResult(m) == [ i \in 1..Len(m) |-> m[i].value ]

list_tools ==
    /\ Dispatching("list_tools")
    /\ Finish(Return(ListToolsResult(mapping)))

list_resource_templates == Dispatching("list_resource_templates") /\ Finish(Return(<< >>))

\* A notification that insists on a total that is a number.
progress_notification_ChecksTotal ==
    /\ Dispatching("progress_notification")
    /\ Finish(IF cur.prog.s.t = "float" THEN ReturnNone
              ELSE Raise(Exc("TypeError", << "total must be a number" >>, "")))

\* The body is a docstring: whatever the token, the progress and the total are,
\* the function returns None.
progress_notification == Dispatching("progress_notification") /\ Finish(ReturnNone)

\* A lookup that takes the descriptor out of the mapping.
MappingAfterGet_Pop(m, name) == SelectSeq(m, LAMBDA kv : kv.key # name)

\* The mapping after mapping.get(name): a lookup changes nothing.
MappingAfterGet(m, name) == m

\* call_tool up to its first suspension point.
call_tool ==
    /\ Dispatching("call_tool")
    /\ UNCHANGED << handlerVars, srv, termCause, runners, buildVars, cliVars, streamVars, streams, taken, inflight, cur,
                    acquires, held, calls, unheldCalls, pending, responses >>
    /\ \E e \in { CallToolEntry(mapping, runners, cur) } :
           /\ pc' = e.next
           /\ outcome' = e.outcome
           /\ constructed' = e.constructed
           /\ invoked' = e.invoked
    /\ mapping' = IF IsMapping(cur.shape) THEN MappingAfterGet(mapping, cur.name) ELSE mapping

\* -------------------------------------------------- the handler at work

\* `async with create_client() as client`: whether the session is held after the
\* acquisition was tried.
HeldAfterAcquire(ok) == ok

\* A release that is skipped when the block is left by an exception.
HeldAfterRelease_LeakOnExc(p) == p.kind = "exc"

\* Leaving the `async with` block, by return or by exception, releases the session.
HeldAfterRelease(p) == FALSE

\* call_tool calling the handler a second time after a failure.
AfterHandler_Retry(p, n) ==
    IF p.kind = "exc" /\ n < 2
    THEN [ next |-> "acquire", invoked |-> n + 1 ]
    ELSE [ next |-> "returned", invoked |-> n ]

\* call_tool after the handler has left: it returns or raises, and calls the
\* handler no second time.
AfterHandler(p, n) == [ next |-> "returned", invoked |-> n ]

\* The handler acquires the backend session; a failure here is outside the
\* handler's own try block and leaves the handler.
Acquire ==
    /\ Running
    /\ pc = "acquire"
    /\ acquires' = acquires + 1
    /\ \/ /\ held' = HeldAfterAcquire(TRUE)
          /\ pc' = "body"
          /\ UNCHANGED << outcome, invoked, pending >>
       \/ \E e \in AcquireFailures :
            LET r == AfterHandler(PendingExc(e), invoked)
            IN  /\ held' = HeldAfterAcquire(FALSE)
                /\ pending' = PendingExc(e)
                /\ pc' = r.next
                /\ invoked' = r.invoked
                /\ outcome' = IF r.next = "returned" THEN CallToolExit(PendingExc(e)) ELSE NoOutcome
    /\ UNCHANGED << handlerVars, srv, termCause, registryVars, buildVars, cliVars, streamVars, streams, taken, inflight, cur,
                    constructed, calls, unheldCalls, responses >>

\* One step of the handler's body inside the held session, on one of the runs
\* the body may take: the body makes its next backend call, at which the handler
\* is suspended, and goes on to the call after it, or, that call having been the
\* last of the run, leaves the `async with` block with what the run leaves; a
\* body that makes no call leaves the block at once.
BodyStep ==
    /\ Running
    /\ pc = "body"
    /\ UNCHANGED << handlerVars, srv, termCause, registryVars, buildVars, cliVars, streamVars, streams, taken, inflight, cur,
                    constructed, invoked, acquires, held, outcome, responses >>
    /\ \E cls \in { CurClass } : \E args \in { ArgsOf(cur) } :
       \E fn \in { RunnerFor(runners, cls) } : \E inst \in { Construct(cls, args) } :
       \E ran \in HandlerRuns(fn, inst) :
         \/ /\ calls < ran.n
            /\ calls' = calls + 1
            /\ unheldCalls' = unheldCalls + (IF held THEN 0 ELSE 1)
            /\ IF calls + 1 < ran.n
               THEN UNCHANGED << pc, pending >>
               ELSE pending' = ran.left /\ pc' = "release"
         \/ /\ ran.n = 0
            /\ calls = 0
            /\ pending' = ran.left
            /\ pc' = "release"
            /\ UNCHANGED << calls, unheldCalls >>

\* The handler leaves its `async with` block and then call_tool: the session is
\* released, and call_tool returns the items or raises the wrapped exception.
Release ==
    /\ Running
    /\ pc = "release"
    /\ held' = HeldAfterRelease(pending)
    /\ LET r == AfterHandler(pending, invoked)
       IN  /\ pc' = r.next
           /\ invoked' = r.invoked
           /\ outcome' = IF r.next = "returned" THEN CallToolExit(pending) ELSE NoOutcome
           /\ calls' = IF r.next = "returned" THEN calls ELSE 0
    /\ UNCHANGED << handlerVars, srv, termCause, registryVars, buildVars, cliVars, streamVars, streams, taken, inflight, cur,
                    constructed, acquires, unheldCalls, pending, responses >>

\* ----------------------------------------------------------------- Next

Next ==
    \/ Start
    \/ Handshake
    \/ ClientSend
    \/ CloseInput
    \/ Receive
    \/ list_prompts
    \/ list_resources
    \/ list_tools
    \/ list_resource_templates
    \/ progress_notification
    \/ call_tool
    \/ Acquire
    \/ BodyStep
    \/ Release
    \/ Respond
    \/ Terminate
    \/ TransportFailure

Spec == Init /\ [][Next]_vars

\* ------------------------------------------- the process with fair steps

\* The operations a call names in the fair specification: a registered one, whose
\* handler lets its failures leave, and a name that is nowhere.
FocusNames == { "ListDialogs", "NoSuchTool" }

ReceiveFocus == ReceiveOf(FocusNames)

\* Code of the process runs the build step once more.
BuildAgain ==
    /\ builds < MaxBuilds
    /\ LET b == BuildStep(genStore)
       IN  /\ rebuilt' = b.result
           /\ genStore' = b.store
           /\ scans' = scans + b.scans
    /\ builds' = builds + 1
    /\ UNCHANGED << handlerVars, srv, termCause, registryVars, cliVars, streamVars, streams, taken, inflight, pc,
                    cur, callVars, responses >>

\* The steps the process takes by itself once it can.
ServerStep ==
    \/ Start
    \/ Handshake
    \/ ReceiveFocus
    \/ list_prompts
    \/ list_resources
    \/ list_tools
    \/ list_resource_templates
    \/ progress_notification
    \/ call_tool
    \/ Acquire
    \/ BodyStep
    \/ Release
    \/ Respond
    \/ Terminate

FairNext ==
    \/ ServerStep
    \/ ClientSend
    \/ CloseInput
    \/ TransportFailure
    \/ BuildAgain

\* The event loop runs a step that stays ready, and a backend call returns.
FairSpec == Init /\ [][FairNext]_vars /\ WF_vars(ServerStep)

\* ------------------------------------------------ the call-tool command

\* The texts given as --arguments: an object, an array, a string, a number, null,
\* and a text that is no JSON.
JsonTexts == { "{...}", "[1]", "\"hi\"", "7", "null", "{oops" }

\* json.loads(arguments): the shape of the value parsed, or JSONDecodeError.
JsonLoads(text) ==
    CASE text = "{...}" -> [ ok |-> TRUE, shape |-> "dict", exc |-> NoExc ]
      [] text = "[1]" -> [ ok |-> TRUE, shape |-> "list", exc |-> NoExc ]
      [] text = "\"hi\"" -> [ ok |-> TRUE, shape |-> "str", exc |-> NoExc ]
      [] text = "7" -> [ ok |-> TRUE, shape |-> "int", exc |-> NoExc ]
      [] text = "null" -> [ ok |-> TRUE, shape |-> "none", exc |-> NoExc ]
      [] OTHER -> [ ok |-> FALSE, shape |-> "",
                    exc |-> Exc("JSONDecodeError", << "Expecting property name" >>, "") ]

\* A command that exits with 0 whatever happened.
CliExitCode_AlwaysZero(o) == 0

\* The exit code of the process: an exception that leaves the command leaves
\* asyncio.run and the typer application, which exits with 1; a command that
\* returns exits with 0.
CliExitCode(o) == IF o.kind = "raise" THEN 1 ELSE 0

\* The command is started with a name and an arguments text, in a process of its
\* own in which no server runs.
CliStart ==
    /\ cli.pc = "off"
    /\ srv = "Idle"
    /\ \E name \in RequestedNames :
         \E text \in JsonTexts :
           \E p \in (IF text = "{...}" THEN Perturbations(name) ELSE { [pf |-> "", pv |-> Absent] }) :
             cli' = [ cli EXCEPT
                        !.input = [ name |-> name, text |-> text, pf |-> p.pf, pv |-> p.pv ],
                        !.pc = "parse" ]
    /\ UNCHANGED << handlerVars, srv, termCause, registryVars, buildVars, streamVars, streams, taken, inflight,
                    pc, cur, callVars, responses >>

\* The arguments of the call are evaluated, json.loads(arguments) among them, and
\* server.call_tool is called; a text that does not parse ends the command.
CliParse ==
    /\ cli.pc = "parse"
    /\ LET j == JsonLoads(cli.input.text)
       IN  IF j.ok
           THEN /\ cur' = [ id |-> 1, kind |-> "call_tool", name |-> cli.input.name,
                            shape |-> j.shape, pf |-> cli.input.pf, pv |-> cli.input.pv,
                            prog |-> NoProgress ]
                /\ pc' = "dispatch"
                /\ cli' = [ cli EXCEPT !.pc = "invoke", !.calls = cli.calls + 1 ]
           ELSE /\ cli' = [ cli EXCEPT !.pc = "exited",
                                       !.exitCode = CliExitCode(Raise(j.exc)) ]
                /\ UNCHANGED << cur, pc >>
    /\ UNCHANGED << handlerVars, srv, termCause, registryVars, buildVars, streamVars, streams, taken, inflight,
                    callVars, responses >>

\* server.call_tool has returned or raised: an exception leaves the command, a
\* result is iterated.
CliReturned ==
    /\ cli.pc = "invoke"
    /\ pc = "returned"
    /\ IF outcome.kind = "raise"
       THEN cli' = [ cli EXCEPT !.pc = "exited", !.exitCode = CliExitCode(outcome) ]
       ELSE cli' = [ cli EXCEPT !.pc = "print" ]
    /\ UNCHANGED << handlerVars, srv, termCause, registryVars, buildVars, streamVars, streams, taken, inflight,
                    pc, cur, callVars, responses >>

\* typer.echo(response) for the next item of the result.
CliEcho ==
    /\ cli.pc = "print"
    /\ Len(cli.printed) < Len(outcome.ret)
    /\ cli' = [ cli EXCEPT !.printed = Append(cli.printed, outcome.ret[Len(cli.printed) + 1]) ]
    /\ UNCHANGED << handlerVars, srv, termCause, registryVars, buildVars, streamVars, streams, taken, inflight,
                    pc, cur, callVars, responses >>

\* The loop over the result is done: the command returns.
CliExit ==
    /\ cli.pc = "print"
    /\ Len(cli.printed) = Len(outcome.ret)
    /\ cli' = [ cli EXCEPT !.pc = "exited", !.exitCode = CliExitCode(outcome) ]
    /\ UNCHANGED << handlerVars, srv, termCause, registryVars, buildVars, streamVars, streams, taken, inflight,
                    pc, cur, callVars, responses >>

CliNext ==
    \/ CliStart
    \/ CliParse
    \/ call_tool
    \/ Acquire
    \/ BodyStep
    \/ Release
    \/ CliReturned
    \/ CliEcho
    \/ CliExit

CliSpec == Init /\ [][CliNext]_vars

\* -------------------------------------- the sign-in and logout commands

\* The phone numbers the sign-in command is given.
PhoneNumbers == { "+15550100", "+15550101" }

\* What get_me returns after a sign-in: a User with this username, or (the empty
\* name) something that is no User.
Accounts == { "bob", "" }

\* The command has made a call on the client of create_client(), which it has
\* connected by hand and holds in no `async with` block; left by the exception
\* of a call, it exits as any command an exception leaves.
CommandFailed(e) ==
    [ cli EXCEPT !.pc = "exited", !.exitCode = CliExitCode(Raise(e)) ]

\* The sign-in or the logout command of the package is started, in a process of
\* its own in which no server runs: asyncio.run of the function of the command.
CommandStart ==
    /\ cli.pc = "off"
    /\ srv = "Idle"
    /\ \/ \E phone \in PhoneNumbers :
            cli' = [ cli EXCEPT !.input = [ NoCliInput EXCEPT !.name = "sign-in", !.text = phone ],
                               !.pc = "connect" ]
       \/ cli' = [ cli EXCEPT !.input = [ NoCliInput EXCEPT !.name = "logout" ], !.pc = "connect" ]
    /\ UNCHANGED << handlerVars, srv, termCause, registryVars, buildVars, streamVars, streams, taken, inflight,
                    pc, cur, callVars, responses >>

\* One step of connect_to_telegram, from one backend call to the next: the
\* client is made from the settings given and connected, a login code is
\* requested and asked for at the prompt, the sign-in is made with the code and,
\* when the account wants a password, made again with the password, and the
\* account is read and greeted. No call is inside an `async with` block, and
\* the exception of any call but the password request leaves the command.
connect_to_telegram ==
    /\ cli.input.name = "sign-in"
    /\ cli.pc \in { "connect", "send_code_request", "sign_in", "password", "get_me" }
    /\ calls' = calls + 1
    /\ unheldCalls' = unheldCalls + (IF held THEN 0 ELSE 1)
    /\ UNCHANGED << handlerVars, srv, termCause, registryVars, buildVars, streamVars, streams, taken, inflight,
                    pc, cur, constructed, invoked, acquires, held, pending, outcome, responses >>
    /\ CASE cli.pc = "connect" ->
              \/ cli' = [ cli EXCEPT !.pc = "send_code_request" ]
              \/ cli' = CommandFailed(Exc("ConnectionError", << "Connection to Telegram failed" >>, ""))
         [] cli.pc = "send_code_request" ->
              \/ cli' = [ cli EXCEPT !.pc = "sign_in",
                                     !.printed = Append(cli.printed, << "Enter login code: " >>) ]
              \/ \E m \in BackendMessages : cli' = CommandFailed(BackendFailure(m))
         [] cli.pc = "sign_in" ->
              \/ cli' = [ cli EXCEPT !.pc = "get_me" ]
              \/ cli' = [ cli EXCEPT !.pc = "password" ]
              \/ \E m \in BackendMessages : cli' = CommandFailed(BackendFailure(m))
         [] cli.pc = "password" ->
              \/ cli' = [ cli EXCEPT !.pc = "get_me" ]
              \/ \E m \in BackendMessages : cli' = CommandFailed(BackendFailure(m))
         [] cli.pc = "get_me" ->
              \/ \E account \in Accounts :
                    cli' = [ cli EXCEPT
                               !.pc = "exited",
                               !.exitCode = CliExitCode(ReturnNone),
                               !.printed = cli.printed \o
                                   << IF account # "" THEN << "Hey ", account, "! You are connected!" >>
                                      ELSE << "Connected!" >>,
                                      << "You can now use the mcp-telegram server." >> >> ]
              \/ \E m \in BackendMessages : cli' = CommandFailed(BackendFailure(m))

\* One step of logout_from_telegram: the client is made from the settings of
\* the environment, which may hold none, and connected; then the account is
\* logged out and the command says so. No call is inside an `async with` block.
logout_from_telegram ==
    /\ cli.input.name = "logout"
    /\ cli.pc \in { "connect", "log_out" }
    /\ UNCHANGED << handlerVars, srv, termCause, registryVars, buildVars, streamVars, streams, taken, inflight,
                    pc, cur, constructed, invoked, acquires, held, pending, outcome, responses >>
    /\ \/ /\ cli.pc = "connect"
          /\ cli' = CommandFailed(Exc("ValidationError",
                                      << ErrorHeader(2, "TelegramSettings"), "api_id", "missing",
                                         "api_hash", "missing" >>, ""))
          /\ UNCHANGED << calls, unheldCalls >>
       \/ /\ calls' = calls + 1
          /\ unheldCalls' = unheldCalls + (IF held THEN 0 ELSE 1)
          /\ IF cli.pc = "connect"
             THEN \/ cli' = [ cli EXCEPT !.pc = "log_out" ]
                  \/ cli' = CommandFailed(Exc("ConnectionError", << "Connection to Telegram failed" >>, ""))
             ELSE \/ cli' = [ cli EXCEPT
                                !.pc = "exited",
                                !.exitCode = CliExitCode(ReturnNone),
                                !.printed = Append(cli.printed,
                                                   << "You are now logged out from Telegram." >>) ]
                  \/ \E m \in BackendMessages : cli' = CommandFailed(BackendFailure(m))

CommandNext ==
    \/ CommandStart
    \/ connect_to_telegram
    \/ logout_from_telegram

CommandSpec == Init /\ [][CommandNext]_vars

\* ------------------------------------------- a handler run, step by step

\* A handler is called with its argument instance and comes to its `async with`
\* statement, where it is suspended while the session is acquired.
HStart ==
    /\ run.pc = "off"
    /\ srv = "Idle"
    /\ cli.pc = "off"
    /\ \E i \in 1..Len(HandlerCases) : \E c \in HandlerCases[i] :
         run' = [ run EXCEPT !.fn = c.fn, !.args = c.args, !.world = c.world, !.pc = "acquire" ]
    /\ UNCHANGED << srv, termCause, registryVars, buildVars, cliVars, streamVars, streams, taken,
                    inflight, pc, cur, callVars, responses >>

\* The acquisition ends: the session is held and the body is entered, or the
\* failure leaves the handler, which has made no backend call and holds nothing.
HAcquire ==
    /\ run.pc = "acquire"
    /\ \/ run' = [ run EXCEPT !.held = HeldAfterAcquire(TRUE), !.pc = "body" ]
       \/ \E e \in AcquireFailures :
            run' = [ run EXCEPT !.held = HeldAfterAcquire(FALSE), !.exc = e, !.out = Raise(e),
                            !.pc = "done" ]
    /\ UNCHANGED << srv, termCause, registryVars, buildVars, cliVars, streamVars, streams, taken,
                    inflight, pc, cur, callVars, responses >>

\* One step of a body that suspends only at its backend calls, where `ran` is
\* the body from its first step to its last: the body runs on to its next
\* request and is suspended there, or, resumed from its last request (or having
\* none to make), runs to the end of the `async with` block.
HBody(fn, ran) ==
    /\ run.pc = "body"
    /\ run.fn = fn
    /\ run' = IF Len(run.reqs) < Len(ran.reqs)
              THEN [ run EXCEPT !.reqs = SubSeq(ran.reqs, 1, Len(run.reqs) + 1),
                                !.at = run.at + 1 ]
              ELSE [ run EXCEPT !.response = ran.response, !.exc = ran.exc, !.pc = "release" ]
    /\ UNCHANGED << srv, termCause, registryVars, buildVars, cliVars, streamVars, streams, taken,
                    inflight, pc, cur, callVars, responses >>

\* One step of list_dialogs: the listing is asked for, then one step of the
\* iteration at a time.
list_dialogs ==
    /\ run.pc = "body"
    /\ run.fn = "list_dialogs"
    /\ run' = IF run.at = 0
              THEN [ run EXCEPT !.reqs = << IterDialogs(run.args) >>, !.at = 1 ]
              ELSE LET s == ListDialogsStep(run.args, run.world, run.at, run.response)
                   IN  [ run EXCEPT !.response = s.response, !.exc = s.exc,
                                    !.at = IF s.done THEN run.at ELSE run.at + 1,
                                    !.pc = IF s.done THEN "release" ELSE "body" ]
    /\ UNCHANGED << srv, termCause, registryVars, buildVars, cliVars, streamVars, streams, taken,
                    inflight, pc, cur, callVars, responses >>

\* One step of list_messages: the query, then the start of the iteration, then
\* one message at a time.
list_messages ==
    /\ run.pc = "body"
    /\ run.fn = "list_messages"
    /\ LET s == ListMessagesStep(run.args, run.world, run.at, run.reqs, run.response)
       IN  run' = [ run EXCEPT !.reqs = s.reqs, !.response = s.response, !.exc = s.exc,
                           !.at = IF s.done THEN run.at ELSE run.at + 1,
                           !.pc = IF s.done THEN "release" ELSE "body" ]
    /\ UNCHANGED << srv, termCause, registryVars, buildVars, cliVars, streamVars, streams, taken,
                    inflight, pc, cur, callVars, responses >>

send_sticker == HBody("send_sticker", SendStickerBody(run.args, run.world))

manage_user == HBody("manage_user", ManageUserBody(run.args, run.world))

set_chat_permissions == HBody("set_chat_permissions", SetChatPermissionsBody(run.args, run.world))

create_channel == HBody("create_channel", CreateChannelBody(run.args, run.world))

invite_to_chat == HBody("invite_to_chat", InviteToChatBody(run.args, run.world))

\* The handler leaves its `async with` block, which releases the session, and
\* returns its response or lets the exception out.
HRelease ==
    /\ run.pc = "release"
    /\ run' = [ run EXCEPT
                !.held = HeldAfterRelease([ kind |-> IF run.exc = NoExc THEN "items" ELSE "exc" ]),
                !.out = IF run.exc = NoExc THEN Return(run.response) ELSE Raise(run.exc),
                !.pc = "done" ]
    /\ UNCHANGED << srv, termCause, registryVars, buildVars, cliVars, streamVars, streams, taken,
                    inflight, pc, cur, callVars, responses >>

HandlerNext ==
    \/ HStart
    \/ HAcquire
    \/ list_dialogs
    \/ list_messages
    \/ send_sticker
    \/ manage_user
    \/ set_chat_permissions
    \/ create_channel
    \/ invite_to_chat
    \/ HRelease

HandlerSpec == Init /\ [][HandlerNext]_vars

\* --------------------------------------------------------------- claims

\* A call_tool request whose function has returned or raised.
CallDone == pc = "returned" /\ cur.kind = "call_tool"

\* The call in progress was turned away before any handler was entered.
RejectedAtEntry == outcome.kind = "raise" /\ pending = NoPending

\* C1. Isolation: whenever a failure leaves the handler of a call (a failure of a
\* backend call in a handler with no except clause of its own, a failure the
\* handler body raises, or a failure while the session is acquired), call_tool
\* raises one RuntimeError that wraps it: its message is the fixed prefix followed
\* by the failure's message, its cause is the failure, and the failure itself
\* does not leave call_tool.
C1_Isolation ==
    (CallDone /\ pending.kind = "exc") =>
        /\ outcome.kind = "raise"
        /\ outcome.exc.type = "RuntimeError"
        /\ outcome.exc.cause = pending.exc.type
        /\ Contains(outcome.exc.msg, pending.exc.msg)
        /\ outcome.exc.msg = << "Caught Exception. Error: " >> \o pending.exc.msg
        /\ outcome.exc # pending.exc
        /\ invoked = 1

\* A backend failure left list_dialogs and call_tool has raised.
C1_Witness ==
    /\ CallDone
    /\ cur.name = "ListDialogs"
    /\ pending.kind = "exc"
    /\ pending.exc.type = "RPCError"
    /\ outcome.kind = "raise"

\* C2. No failure of an invoke request ends the server: every exception that
\* call_tool raises derives from Exception, so the loop answers it with an error
\* response; the server terminates only at the end of input or on a transport
\* failure; and after error responses the server, still Serving, reads the next
\* request that is waiting.
C2_ServingAfterErrors ==
    /\ (CallDone /\ outcome.kind = "raise") =>
           outcome.exc.type \in {"TypeError", "ValueError", "RuntimeError"}
    /\ srv = "Terminated" => termCause \in {"eof", "transport"}
    /\ ((\E i \in 1..Len(responses) : responses[i].isError) /\ termCause = "") => srv = "Serving"
    /\ (srv = "Serving" /\ pc = "idle" /\ taken < sent) => ENABLED Receive

\* An invoke request was answered with an error response and the next request
\* was answered normally.
C2_Witness ==
    /\ Len(responses) = 2
    /\ responses[1].isError
    /\ ~responses[2].isError
    /\ srv = "Serving"

\* C3 as stated: no exception leaves call_tool, whatever the name and the
\* arguments.
C3_NoExceptionEscapes == CallDone => outcome.kind # "raise"

\* C3, amended. Each error kind leaves call_tool as a raised exception that
\* derives from Exception: TypeError for a payload that is no mapping, ValueError
\* naming the operation for an unknown name, RuntimeError for a failed
\* construction or execution; call_tool itself returns no error response.
C3_ErrorsAreRaised ==
    CallDone =>
        /\ cur.shape # "dict" => (outcome.kind = "raise" /\ outcome.exc.type = "TypeError")
        /\ (cur.shape = "dict" /\ cur.name \notin Keys(mapping)) =>
               (outcome.kind = "raise" /\ outcome.exc.type = "ValueError")
        /\ (cur.shape = "dict" /\ cur.name \in Keys(mapping) /\ (RejectedAtEntry \/ pending.kind = "exc")) =>
               (outcome.kind = "raise" /\ outcome.exc.type = "RuntimeError")
        /\ outcome.kind = "raise" => IsException(outcome.exc.type)
        /\ outcome.kind = "return" =>
               \A i \in 1..Len(outcome.ret) : outcome.ret[i].type = "text"

\* call_tool("NoSuchTool", {}) has raised ValueError.
C3_Witness ==
    /\ CallDone
    /\ cur.name = "NoSuchTool"
    /\ cur.shape = "dict"
    /\ cur.pf = ""
    /\ outcome = Raise(Exc("ValueError", << "Unknown tool: ", "NoSuchTool" >>, ""))

\* C4. A payload that is not a mapping is turned away before the registry is
\* consulted, for every name, registered or not: the call raises the TypeError of
\* the shape check, never the unknown-tool error, builds no instance, enters no
\* handler and acquires no session.
C4_ShapeFirst ==
    (CallDone /\ cur.shape # "dict") =>
        /\ outcome = Raise(Exc("TypeError", << "arguments must be dictionary" >>, ""))
        /\ constructed = 0
        /\ invoked = 0
        /\ acquires = 0

\* A list was passed as the arguments of a name that is not registered.
C4_Witness ==
    /\ CallDone
    /\ cur.shape = "list"
    /\ cur.name = "NoSuchTool"
    /\ outcome.kind = "raise"

\* C5. A mapping passed with a name that is absent from the registry makes
\* call_tool raise the unknown-tool ValueError, whose message names the requested
\* operation; no items are returned, no instance is built, no handler is entered
\* and no session is acquired.
C5_UnknownOperation ==
    (CallDone /\ cur.shape = "dict" /\ cur.name \notin Keys(mapping)) =>
        /\ outcome.kind = "raise"
        /\ outcome.exc.type = "ValueError"
        /\ outcome.exc.msg = << "Unknown tool: ", cur.name >>
        /\ Contains(outcome.exc.msg, << cur.name >>)
        /\ outcome.ret = << >>
        /\ constructed = 0
        /\ invoked = 0
        /\ acquires = 0

\* The base type's own name was asked for, with a mapping.
C5_Witness ==
    /\ CallDone
    /\ cur.shape = "dict"
    /\ cur.name = "ToolArgs"
    /\ outcome.exc.type = "ValueError"

\* The request in progress changes one declared field of a registered operation.
C6_FieldCase ==
    /\ CallDone
    /\ cur.shape = "dict"
    /\ cur.name \in Keys(mapping)
    /\ cur.pf \in FieldNames(cur.name)

C6_Type == FieldNamed(cur.name, cur.pf).ty

C6_Optional(ty) == ty \in {"int?", "str?", "bool?"}

\* The value has the type the field declares.
C6_TypeMatches(ty, v) ==
    \/ v.t = "none" /\ C6_Optional(ty)
    \/ ty \in {"int", "int?"} /\ v.t = "int"
    \/ ty \in {"str", "str?"} /\ v.t = "str"
    \/ ty \in {"bool", "bool?"} /\ v.t = "bool"
    \/ ty = "int|str" /\ v.t \in {"int", "str"}
    \/ ty = "list" /\ v.t = "list"

\* The value cannot be converted to the type the field declares.
C6_Unconvertible(ty, v) ==
    IF v.t = "none" THEN ~C6_Optional(ty)
    ELSE CASE ty \in {"int", "int?"} -> v.t = "list" \/ (v.t = "str" /\ v.s \in {"hi", "true"})
           [] ty \in {"str", "str?"} -> v.t # "str"
           [] ty \in {"bool", "bool?"} ->
                v.t = "list" \/ (v.t = "int" /\ v.s = "7") \/ (v.t = "str" /\ v.s \in {"hi", "12"})
           [] ty = "int|str" -> v.t = "list"
           [] OTHER -> v.t # "list"

\* The text has a line whose place is the field, or the field as one member of
\* its union.
C6_NamesField(msg, f) ==
    \E i \in 1..Len(msg) : msg[i] \in { f, f \o ".int", f \o ".str" }

C6_Omitted == cur.pv = Absent /\ cur.pf \in RequiredNames(cur.name)

\* C6 as stated: a missing required field or a value of the wrong type makes the
\* call fail with a validation error of its own kind, not the wrapped error of a
\* failed execution, naming the field, with no handler entered.
C6_ValidationErrorOfItsOwn ==
    (C6_FieldCase /\ (C6_Omitted \/ (cur.pv # Absent /\ ~C6_TypeMatches(C6_Type, cur.pv)))) =>
        /\ outcome.kind = "raise"
        /\ outcome.exc.type = "ValidationError"
        /\ C6_NamesField(outcome.exc.msg, cur.pf)
        /\ invoked = 0

\* C6, amended. A missing required field, or a value that cannot be converted to
\* the field's type, makes call_tool raise the same wrapped RuntimeError as a
\* failed execution: its cause is the validation error, its message names the
\* class and the field, and no instance is built, no handler entered, no session
\* acquired. A value of another type that converts to the field's type (the
\* string "12" or true for an int field) is accepted and the handler is entered.
C6_ValidationIsWrapped ==
    C6_FieldCase =>
        /\ (C6_Omitted \/ (cur.pv # Absent /\ C6_Unconvertible(C6_Type, cur.pv))) =>
               /\ outcome.kind = "raise"
               /\ outcome.exc.type = "RuntimeError"
               /\ outcome.exc.cause = "ValidationError"
               /\ \E n \in 1..2 : Contains(outcome.exc.msg, << ErrorHeader(n, cur.name) >>)
               /\ C6_NamesField(outcome.exc.msg, cur.pf)
               /\ constructed = 0
               /\ invoked = 0
               /\ acquires = 0
        /\ ~(C6_Omitted \/ (cur.pv # Absent /\ C6_Unconvertible(C6_Type, cur.pv))) =>
               /\ constructed = 1
               /\ invoked = 1
               /\ ~RejectedAtEntry
        /\ (cur.name = "SendMessage" /\ cur.pf = "dialog_id" /\ cur.pv = V("str", "hi")) =>
               outcome = Raise(Exc("RuntimeError",
                                   << "Caught Exception. Error: ",
                                      "1 validation error for SendMessage",
                                      "dialog_id", "int_parsing" >>,
                                   "ValidationError"))
        /\ (cur.name = "ManageUser" /\ cur.pf = "user_id" /\ cur.pv = V("list", "[]")) =>
               outcome.exc.msg = << "Caught Exception. Error: ",
                                    "2 validation errors for ManageUser",
                                    "user_id.int", "int_type", "user_id.str", "string_type" >>

\* SendMessage was called with a dialog_id that is no integer.
C6_Witness ==
    /\ C6_FieldCase
    /\ cur.name = "SendMessage"
    /\ cur.pf = "dialog_id"
    /\ cur.pv = V("str", "hi")
    /\ outcome.exc.cause = "ValidationError"

\* C7. A call enters at most one handler and never a second time: a call that
\* passes the shape check, the lookup and the construction has entered its
\* handler exactly once when it returns or raises, whether the handler succeeded
\* or failed; a call turned away earlier has entered none; the session is
\* acquired at most once per call.
C7_OneInvocation ==
    /\ invoked \in {0, 1}
    /\ acquires <= invoked
    /\ pc \in {"acquire", "body", "release"} => invoked = 1
    /\ pc \in {"body", "release"} => acquires = 1
    /\ CallDone => (invoked = 0 <=> RejectedAtEntry)
    /\ CallDone => (invoked = 1 <=> acquires = 1)
    /\ cur.kind # "call_tool" => invoked = 0

\* A handler failed after it was entered, and it was entered once.
C7_Witness ==
    /\ CallDone
    /\ invoked = 1
    /\ pending.kind = "exc"
    /\ calls >= 1

\* C9. The backend session is held only between a handler's acquisition and its
\* release: no backend call is made while it is not held, and it is not held once
\* call_tool has returned or raised, whichever way the handler was left, nor
\* between requests.
C9_ScopedSession ==
    /\ unheldCalls = 0
    /\ held => pc \in {"body", "release"}
    /\ pc = "body" => held
    /\ pc \in {"idle", "dispatch", "acquire", "returned"} => ~held

\* A failure left list_messages from inside the held session, and the session
\* is released.
C9_Witness ==
    /\ CallDone
    /\ cur.name = "ListMessages"
    /\ pending.kind = "exc"
    /\ pending.exc.type = "ValueError"
    /\ calls >= 1
    /\ ~held

\* C10. Registry completeness: list_tools returns exactly one descriptor for
\* every class declared with ToolArgs as its base, named as the class; none for
\* ToolArgs itself, and none for anything else.
C10_RegistryComplete ==
    (pc = "returned" /\ cur.kind = "list_tools") =>
        /\ \A c \in DeclaredArgTypes :
               Cardinality({ i \in 1..Len(outcome.ret) : outcome.ret[i].name = c }) = 1
        /\ \A i \in 1..Len(outcome.ret) : outcome.ret[i].name \in DeclaredArgTypes
        /\ \A i \in 1..Len(outcome.ret) : outcome.ret[i].name # "ToolArgs"
        /\ Len(outcome.ret) = Cardinality(DeclaredArgTypes)
        /\ Keys(mapping) = DeclaredArgTypes

\* list_tools has returned the descriptors.
C10_Witness ==
    /\ pc = "returned"
    /\ cur.kind = "list_tools"
    /\ outcome.kind = "return"
    /\ Len(outcome.ret) = 31

\* The names and schemas of the descriptors of a mapping.
NamesAndSchemas(m) ==
    { [ name |-> m[i].value.name, schema |-> m[i].value.inputSchema ] : i \in 1..Len(m) }

\* C11 - Registry determinism: a build step run a second time in the same process
\* yields descriptors with the same names and the same schemas as the first run,
\* whose result is the registry mapping.
C11_SameDescriptors ==
    builds >= 2 => NamesAndSchemas(rebuilt) = NamesAndSchemas(mapping)

\* C12 - The scan over the declared Operation Argument Types runs at most once in
\* a process: the first build step ran it, every later build step gets the stored
\* generator and scans nothing, and no request, list_tools and call_tool included,
\* adds a scan.
C12_ScanOnce ==
    /\ scans = 1
    /\ genStore = "exhausted"

\* A build step has run again, one request was answered and a call_tool request
\* has run its handler.
C12_Witness ==
    /\ builds = 2
    /\ rebuilt = << >>
    /\ Len(responses) = 1
    /\ pc = "returned"
    /\ cur.kind = "call_tool"
    /\ invoked = 1

\* The types the scan registers: the members of the tools module that pass its
\* filter.
RegisteredTypes ==
    { ModuleMembers[i] : i \in { j \in 1..Len(ModuleMembers) : IsToolClass(ModuleMembers[j]) } }

\* The names the descriptions give to the registered types are pairwise distinct.
C13_DistinctNames ==
    \A c, d \in RegisteredTypes :
        tool_description(c).name = tool_description(d).name => c = d

\* C13 - In every reachable state every key of the registry mapping equals the
\* name field of its descriptor, and no two distinct registered types share a
\* name: the keys are as many as the entries and as the registered types.
C13_KeysAreNames ==
    /\ \A i \in 1..Len(mapping) : mapping[i].key = mapping[i].value.name
    /\ Cardinality(Keys(mapping)) = Len(mapping)
    /\ Len(mapping) = Cardinality(RegisteredTypes)
    /\ C13_DistinctNames

\* The registry holds several types and has served a call that looked one up.
C13_Witness ==
    /\ Len(mapping) > 1
    /\ CallDone
    /\ invoked = 1
    /\ cur.name \in Keys(mapping)

\* C14 - The registry mapping and the set of registered handlers are read-only
\* once serving: no step of list_tools, call_tool (successful or failing with any
\* error), list_prompts, list_resources, list_resource_templates or
\* progress_notification, and no other step of the server, changes them.
C14_ReadOnly == [][ mapping' = mapping /\ runners' = runners ]_vars

\* A failed call was answered and a second call has returned its content, and the
\* registry and the handlers are what they were at import.
C14_Witness ==
    /\ Len(responses) = 1
    /\ responses[1].isError
    /\ CallDone
    /\ outcome.kind = "return"
    /\ Keys(mapping) = RegisteredTypes
    /\ runners = Registrations

\* The descriptors of the registered types in the order of the scan.
C15_FullList ==
    LET first == DictOf(enumerate_available_tools, << >>)
    IN  [ i \in 1..Len(first) |-> first[i].value ]

\* C15 - list_tools is stateless and always succeeds: in every Serving state,
\* after any sequence of earlier requests, a list_tools request can run, and it
\* returns the full list of descriptors (name, description, schema) in the one
\* order every list_tools call of the process returns.
C15_ListTools ==
    /\ Dispatching("list_tools") => ENABLED list_tools
    /\ (pc = "returned" /\ cur.kind = "list_tools") =>
           /\ outcome = Return(C15_FullList)
           /\ Len(outcome.ret) = Cardinality(RegisteredTypes)
           /\ \A i \in 1..Len(outcome.ret) :
                  DOMAIN outcome.ret[i] = { "name", "description", "inputSchema" }

\* list_tools has returned the list after an earlier request was answered with an
\* error.
C15_Witness ==
    /\ Len(responses) = 1
    /\ responses[1].isError
    /\ pc = "returned"
    /\ cur.kind = "list_tools"
    /\ Len(outcome.ret) = 31

\* C16 - Every operation of the registry has one handler registered for exactly
\* its argument type (stated for the whole registry between requests and for the
\* operation asked for while a request is in progress): dispatch on an instance
\* of a registered type selects that handler and never the default, so no call
\* leaves with Unsupported-Operation; the default handler, were it selected for
\* the instance of the call, fails with Unsupported-Operation.
C16_HandlerForEveryOperation ==
    /\ pc = "idle" =>
           \A k \in Keys(mapping) :
               /\ RunnerFor(runners, k) # "tool_runner"
               /\ Cardinality({ i \in 1..Len(runners) : runners[i].cls = k }) = 1
    /\ (pc # "idle" /\ cur.name \in Keys(mapping)) =>
           RunnerFor(runners, cur.name) # "tool_runner"
    /\ CallDone => outcome.exc.cause # "NotImplementedError"
    /\ (CallDone /\ constructed = 1) =>
           /\ invoked = 1
           /\ CallToolEntry(mapping, << >>, cur).outcome =
                  Raise(WrapException(Exc("NotImplementedError",
                                          << "Unsupported type: ", cur.name >>, "")))

\* A call has constructed its instance and its registered handler has run.
C16_Witness ==
    /\ CallDone
    /\ constructed = 1
    /\ invoked = 1
    /\ pending.kind = "items"
    /\ CurRunner # "tool_runner"

\* The moves of the server's state.
C17_Moves ==
    { << "Idle", "Negotiating" >>, << "Negotiating", "Serving" >>, << "Serving", "Terminated" >> }

\* C17 - No request of any kind is accepted and served before the initialization
\* handshake has completed: the server's state only moves Idle -> Negotiating ->
\* Serving -> Terminated, a request is in progress only in Serving, and requests
\* were read or answered only if Serving was reached.
C17_ServedOnlyWhenServing ==
    /\ [](pc # "idle" => srv = "Serving")
    /\ []((taken > 0 \/ responses # << >>) => srv \in { "Serving", "Terminated" })
    /\ [](srv \in { "Idle", "Negotiating" } => (inflight = 0 /\ outcome = NoOutcome))
    /\ [][ srv' # srv => << srv, srv' >> \in C17_Moves ]_vars

\* Requests were waiting in the input stream during the handshake, and one of
\* them is now being served.
C17_Witness ==
    /\ srv = "Serving"
    /\ sent = 2
    /\ taken = 1
    /\ pc = "dispatch"
    /\ cur.kind = "call_tool"

\* C18 - The server reaches Terminated only through the end of the input stream
\* or a transport failure; once the input stream is closed the server eventually
\* reaches Terminated, the steps of the request in progress being taken; and the
\* streams opened at start are open until then and released on termination.
C18_Termination ==
    /\ [](srv = "Terminated" => termCause \in { "eof", "transport" })
    /\ [](termCause = "eof" => (closed /\ taken = sent /\ inflight = 0))
    /\ [](srv \in { "Negotiating", "Serving" } <=> streams = "open")
    /\ [](srv = "Terminated" => streams = "released")
    /\ (closed ~> srv = "Terminated")

\* The input stream was closed while a request was waiting; the request was
\* answered, the server terminated at the end of input and released the streams.
C18_Witness ==
    /\ srv = "Terminated"
    /\ termCause = "eof"
    /\ closed
    /\ Len(responses) = 2
    /\ streams = "released"

\* The stub endpoints that list something.
C19_ListStubs == { "list_prompts", "list_resources", "list_resource_templates" }

\* What the server holds besides the position and the outcome of the request in
\* progress.
C19_ServerState ==
    << srv, termCause, mapping, runners, buildVars, cliVars, streams, taken, inflight, cur,
       constructed, invoked, acquires, held, calls, unheldCalls, pending, responses >>

\* C19 - The stub endpoints are constants: in every state list_prompts,
\* list_resources and list_resource_templates can run and return an empty
\* sequence, and progress_notification with any token, progress and total is
\* accepted, returns no value, and its step, like the steps of the other stubs,
\* changes nothing of the server's state.
C19_StubsAreConstants ==
    /\ []((pc = "returned" /\ cur.kind \in C19_ListStubs) => outcome = Return(<< >>))
    /\ []((pc = "returned" /\ cur.kind = "progress_notification") => outcome = ReturnNone)
    /\ [](Dispatching("list_prompts") => ENABLED list_prompts)
    /\ [](Dispatching("list_resources") => ENABLED list_resources)
    /\ [](Dispatching("list_resource_templates") => ENABLED list_resource_templates)
    /\ [](Dispatching("progress_notification") => ENABLED progress_notification)
    /\ [][ (pc = "dispatch" /\ cur.kind \in C19_ListStubs \cup { "progress_notification" })
               => UNCHANGED C19_ServerState ]_vars

\* After a request that was answered with an error, a progress notification whose
\* token and total are None has returned.
C19_Witness ==
    /\ Len(responses) = 1
    /\ responses[1].isError
    /\ pc = "returned"
    /\ cur.kind = "progress_notification"
    /\ cur.prog.token = V("none", "None")
    /\ cur.prog.s = V("none", "None")
    /\ outcome = ReturnNone

\* The request in progress is call_tool("ListDialogs", {}) past its dispatch.
C20_ListDialogsNoArguments ==
    /\ cur.kind = "call_tool"
    /\ cur.name = "ListDialogs"
    /\ cur.shape = "dict"
    /\ cur.pf = ""
    /\ pc \notin { "idle", "dispatch" }

\* C20 - Defaulting: in the instance constructed for a call, looked at when it is
\* handed to the handler, every omitted field has its declared default; call_tool("ListDialogs", {}) requires no field,
\* constructs the instance with unread, archived and ignore_pinned all False, and
\* returns content and raises nothing when the backend listing succeeds.
C20_Defaulting ==
    /\ (pc = "acquire" /\ constructed = 1) =>
           LET inst == CurInst
           IN  \A n \in FieldNames(cur.name) \ DOMAIN ArgsOf(cur) :
                   /\ ~FieldNamed(cur.name, n).req
                   /\ inst[n] = FieldNamed(cur.name, n).def
    /\ C20_ListDialogsNoArguments =>
           /\ DOMAIN ArgsOf(cur) = {}
           /\ constructed = 1
           /\ invoked = 1
           /\ CurInst = [ n \in { "unread", "archived", "ignore_pinned" } |-> V("bool", "False") ]
    /\ (C20_ListDialogsNoArguments /\ pc = "returned" /\ pending.kind = "items") =>
           outcome = Return(pending.items)

\* call_tool("ListDialogs", {}) has returned the content of a listing that
\* succeeded.
C20_Witness ==
    /\ C20_ListDialogsNoArguments
    /\ pc = "returned"
    /\ pending.kind = "items"
    /\ outcome.kind = "return"
    /\ calls > 0

\* The request in progress is a call whose handler has an except clause around
\* its backend calls, and the handler made a backend call inside the session.
C21_WrappingHandlerRan ==
    /\ CallDone
    /\ constructed = 1
    /\ FailPhrase(CurRunner) # ""
    /\ calls > 0

\* The first words of the item a handler's except clause appends.
C21_Phrase ==
    IF CurRunner = "manage_user"
    THEN << "Failed to ", CurInst["action"].s, " user: " >>
    ELSE << FailPhrase(CurRunner) >>

\* The content returned reports a failure of the backend: it holds the message
\* of one.
C21_BackendFailed ==
    \E m \in BackendMessages : \E i \in 1..Len(outcome.ret) :
        \E j \in 1..Len(outcome.ret[i].text) : outcome.ret[i].text[j] = m

\* The line invite_to_chat makes of a user: the backend's message m after the
\* words of a failure, the failure of the lookup of the request class, or the
\* words of a success.
C21_InviteLine(user, m) ==
    CASE m = "ok" -> << "Successfully invited ", user >>
      [] m = "lookup" ->
           << "Failed to invite ", user, ": " >> \o AttributeError("channels", "InviteToChannel").msg
      [] OTHER -> << "Failed to invite ", user, ": ", m >>

\* The users of the call of InviteToChat in progress.
C21_Users == ItemsOf(CurInst["users"])

\* C21 as stated: once a handler that wraps its backend calls has made one
\* inside the held session, call_tool returns and raises nothing, and when a
\* backend call failed the content is exactly one Text item, the operation's
\* fixed failure phrase followed by the backend's message; so for SendMessage,
\* and likewise for every other such handler.
C21_OneFixedPhrase ==
    C21_WrappingHandlerRan =>
        /\ outcome.kind = "return"
        /\ C21_BackendFailed =>
               \E m \in BackendMessages : outcome.ret = << Text(C21_Phrase \o << m >>) >>

\* C21, amended. Once a handler that wraps its backend calls has made one
\* inside the held session, call_tool returns what the handler left and raises
\* nothing; when a backend call failed the content is exactly one Text item.
\* For SendMessage it is "Failed to send message: " followed by the backend's
\* message, and for every other such handler its own fixed phrase followed by
\* the message, with one exception: a failure inside the try block of a user of
\* InviteToChat does not end the handler; all users are gone through, and the
\* one item holds a line per user in the order of the list, the line of a user
\* the backend failed on being "Failed to invite <user>: " followed by the
\* backend's message; only a failure of the look-up of the chat, the first
\* call, is reported with "Failed to process invites: ".
C21_FailureAsContent ==
    /\ C21_WrappingHandlerRan =>
           /\ outcome.kind = "return"
           /\ outcome.ret = pending.items
    /\ (C21_WrappingHandlerRan /\ cur.name = "SendMessage") =>
           \/ outcome.ret \in SuccessItems("send_message", CurInst)
           \/ \E m \in BackendMessages :
                outcome.ret = << Text(<< "Failed to send message: ", m >>) >>
    /\ (C21_WrappingHandlerRan /\ C21_BackendFailed) =>
           /\ Len(outcome.ret) = 1
           /\ outcome.ret[1].type = "text"
           /\ IF CurRunner = "invite_to_chat" /\ calls > 1
              THEN /\ calls = 1 + Len(C21_Users)
                   /\ \E f \in [ 1..Len(C21_Users) -> BackendMessages \cup { "ok", "lookup" } ] :
                        outcome.ret[1].text =
                            JoinLines([ k \in 1..Len(C21_Users) |-> C21_InviteLine(C21_Users[k], f[k]) ])
              ELSE \E m \in BackendMessages : outcome.ret = << Text(C21_Phrase \o << m >>) >>

\* InviteToChat with two users has returned its one item: the backend failed on
\* the first user, which has its own line, and the second user was still gone
\* through.
C21_Witness ==
    /\ CallDone
    /\ cur.name = "InviteToChat"
    /\ held = FALSE
    /\ calls = 3
    /\ outcome = Return(<< Text(JoinLines(<< C21_InviteLine("bob", "FLOOD_WAIT_30"),
                                             C21_InviteLine("ann", "lookup") >>)) >>)

\* C23 - The call-tool command performs exactly one call of call_tool, with the
\* given name and the parsed arguments, unless the arguments do not parse, and
\* then none; it echoes every item of the result in order; it exits with a
\* non-zero code when parsing the arguments or the call ended in an exception, and
\* with zero otherwise.
C23_CallToolCommand ==
    /\ cli.calls <= 1
    /\ invoked <= 1
    /\ cli.calls = 1 =>
           /\ cli.input.text # "{oops"
           /\ cur.kind = "call_tool"
           /\ cur.name = cli.input.name
           /\ cur.shape = (CASE cli.input.text = "{...}" -> "dict"
                             [] cli.input.text = "[1]" -> "list"
                             [] cli.input.text = "\"hi\"" -> "str"
                             [] cli.input.text = "7" -> "int"
                             [] OTHER -> "none")
           /\ cur.pf = cli.input.pf
           /\ cur.pv = cli.input.pv
    /\ \A i \in 1..Len(cli.printed) : cli.printed[i] = outcome.ret[i]
    /\ cli.pc = "exited" =>
           /\ cli.calls = (IF cli.input.text = "{oops" THEN 0 ELSE 1)
           /\ cli.exitCode \in { 0, 1 }
           /\ cli.exitCode # 0 <=> (cli.input.text = "{oops" \/ outcome.kind = "raise")
           /\ cli.exitCode = 0 => cli.printed = outcome.ret
           /\ cli.exitCode # 0 => cli.printed = << >>
    /\ cli.pc # "exited" => cli.exitCode = -1

\* The command has echoed the item that reports a backend failure of SendMessage
\* and has exited with 0.
C23_Witness ==
    /\ cli.pc = "exited"
    /\ cli.exitCode = 0
    /\ cli.input.name = "SendMessage"
    /\ cli.printed = << Text(<< "Failed to send message: ", "PEER_ID_INVALID" >>) >>

\* The argument mapping made of the defaults a schema declares, and of nothing
\* else.
C22_DefaultsOf(schema) ==
    LET withDefault == { i \in 1..Len(schema.properties) : schema.properties[i].def # NoDefault }
    IN  [ n \in { schema.properties[i].n : i \in withDefault } |->
            schema.properties[CHOOSE i \in withDefault : schema.properties[i].n = n].def ]

\* The schema of a descriptor lists exactly the fields of the type the descriptor
\* names, each with its declared default.
C22_SchemaListsFields(d) ==
    /\ { d.inputSchema.properties[i].n : i \in 1..Len(d.inputSchema.properties) } = FieldNames(d.name)
    /\ \A i \in 1..Len(d.inputSchema.properties) :
           d.inputSchema.properties[i].def = FieldNamed(d.name, d.inputSchema.properties[i].n).def

\* C22 as stated: for each registered operation the schema lists the type's
\* fields with their defaults, and constructing an instance from only the
\* defaults of the schema succeeds.
C22_DefaultsAlwaysConstruct ==
    (pc = "returned" /\ cur.kind = "list_tools") =>
        \A i \in 1..Len(outcome.ret) :
            /\ C22_SchemaListsFields(outcome.ret[i])
            /\ tool_args(outcome.ret[i], C22_DefaultsOf(outcome.ret[i].inputSchema)).ok

\* C22, amended. For each registered operation the schema lists the type's fields
\* with their defaults; constructing an instance from only the defaults of the
\* schema succeeds exactly when the schema marks no field as required, and then
\* the instance holds the defaults; otherwise it fails with a validation error,
\* and ListDialogs is of the first kind and SendMessage of the second.
C22_DefaultsConstructIffNothingRequired ==
    (pc = "returned" /\ cur.kind = "list_tools") =>
        \A i \in 1..Len(outcome.ret) :
            LET d == outcome.ret[i]
                built == tool_args(d, C22_DefaultsOf(d.inputSchema))
            IN  /\ C22_SchemaListsFields(d)
                /\ built.ok <=> d.inputSchema.required = {}
                /\ built.ok => Construct(d.name, C22_DefaultsOf(d.inputSchema))
                                   = C22_DefaultsOf(d.inputSchema)
                /\ ~built.ok => built.exc.type = "ValidationError"
                /\ d.name = "ListDialogs" => built.ok
                /\ d.name = "SendMessage" => ~built.ok

\* list_tools has returned the descriptors, SendMessage's with its two required
\* fields among them.
C22_Witness ==
    /\ pc = "returned"
    /\ cur.kind = "list_tools"
    /\ \E i \in 1..Len(outcome.ret) :
         /\ outcome.ret[i].name = "SendMessage"
         /\ outcome.ret[i].inputSchema.required = { "dialog_id", "message" }

\* The function registered with tool_runner for the class of a name.
C24_HandlerOf(name) ==
    Registrations[CHOOSE i \in 1..Len(Registrations) : Registrations[i].cls = name].fn

\* The handler whose name the items of a handler's result carry.
C24_ProducedBy(items) == items[1].text[1]

\* C24 - Routing is name-faithful: for every name of the registry and every
\* argument mapping that passes construction, the instance that tool_args built
\* is of the type with that name, the handler that runs on it is the one
\* registered for that type, and it is the only one to run: the content of a
\* successful call is that handler's.
C24_NameFaithful ==
    /\ (pc = "acquire" /\ constructed = 1) =>
           /\ cur.name \in Keys(mapping)
           /\ MappingGet(mapping, cur.name).name = cur.name
           /\ tool_args(MappingGet(mapping, cur.name), ArgsOf(cur)).cls = cur.name
           /\ DOMAIN CurInst = FieldNames(cur.name)
    /\ (cur.kind = "call_tool" /\ constructed = 1) =>
           /\ invoked = 1
           /\ CurRunner = C24_HandlerOf(cur.name)
    /\ (CallDone /\ pending.kind = "items"
          /\ C24_HandlerOf(cur.name) \notin { "list_dialogs", "list_messages" }
          /\ pending.items[1].text # << >>
          /\ pending.items[1].text[Len(pending.items[1].text)] = ": done") =>
           C24_ProducedBy(outcome.ret) = C24_HandlerOf(cur.name)
    /\ (CallDone /\ pending.kind = "items"
          /\ C24_HandlerOf(cur.name) \in { "list_dialogs", "list_messages" }) =>
           outcome.ret \in SuccessItems(C24_HandlerOf(cur.name), CurInst)

\* A call of EditMessage has returned the content of edit_message.
C24_Witness ==
    /\ CallDone
    /\ cur.name = "EditMessage"
    /\ outcome = Return(<< Text(<< "edit_message", ": done" >>) >>)

\* The handler run is over, and it was not the acquisition that failed: the
\* body of the `async with` block was entered with the session held.
HLeft ==
    run.pc = "done" /\ run.out \notin { Raise(e) : e \in AcquireFailures }

\* The dialogs the response of list_dialogs must show, in the backend's order.
C30_Shown(args, dialogs) ==
    IF args.unread THEN SelectSeq(dialogs, LAMBDA d : d.unread_count # 0) ELSE dialogs

\* The iteration of the run fails: the backend fails at one of the dialogs it
\* is asked for, or when asked for one more after the last.
C30_Fails == run.world.failAt \in 1..(Len(run.world.dialogs) + 1)

\* C30 - ListDialogs: the handler asks the backend for one listing with the
\* archived and ignore_pinned of the arguments; when the listing ends without
\* failure it returns one text item per dialog yielded, in the backend's order,
\* leaving out exactly the dialogs with unread count 0 when unread is true and no
\* dialog otherwise; when the iteration fails the failure leaves the handler
\* unchanged, and only once the session is released.
C30_ListDialogs ==
    /\ (run.fn = "list_dialogs" /\ (run.pc = "release" \/ HLeft)) =>
           run.reqs = << [ op |-> "iter_dialogs", archived |-> run.args.archived,
                        ignore_pinned |-> run.args.ignore_pinned ] >>
    /\ (run.fn = "list_dialogs" /\ HLeft /\ ~C30_Fails) =>
           LET shown == C30_Shown(run.args, run.world.dialogs)
           IN  run.out = Return([ i \in 1..Len(shown) |-> DialogText(shown[i]) ])
    /\ (run.fn = "list_dialogs" /\ HLeft /\ C30_Fails) =>
           /\ run.out = Raise(BackendFailure("FLOOD_WAIT_30"))
           /\ ~run.held
    /\ (run.fn = "list_dialogs" /\ run.out.kind = "raise") => ~run.held
    /\ (run.fn = "list_dialogs" /\ run.pc = "release") => (run.held /\ run.out = NoOutcome)

\* A listing of two dialogs asked with unread=true has returned the one dialog
\* with unread messages and left out the one without.
C30_Witness ==
    /\ run.fn = "list_dialogs"
    /\ HLeft
    /\ run.args.unread
    /\ Len(run.world.dialogs) = 2
    /\ run.world.dialogs[1].unread_count = 0
    /\ run.world.dialogs[2].unread_count # 0
    /\ run.out = Return(<< DialogText(run.world.dialogs[2]) >>)

\* The unread count of the dialog asked for, as the reply gives it: that of its
\* entry, and none when the reply has no entry for it.
C25_RequestedUnread(args, dialogs) ==
    LET own == SelectSeq(dialogs, LAMBDA d : d.peer = args.dialog_id)
    IN  IF own = << >> THEN 0 ELSE own[1].unread_count

\* C25 - ListMessages: for every PeerDialogs reply to the peer-dialog query,
\* with no entry, one or several, the handler returns the text-bearing messages
\* among the newest L of the history, newest first, where L is
\* min(unread count of the dialog asked for, limit) when unread is true and limit
\* otherwise; it never returns more than L items.
C25_UnreadLimit ==
    (run.fn = "list_messages" /\ HLeft /\ run.world.reply = "peer") =>
        LET L == IF run.args.unread
                 THEN Min(C25_RequestedUnread(run.args, run.world.dialogs), run.args.limit)
                 ELSE run.args.limit
        IN  /\ run.out = Return(MessageItems(IterMessages(run.world.history, L)))
            /\ Len(run.out.ret) <= Max(L, 0)

\* C26 - SendSticker: whenever the backend accepts the send, for a file path as
\* for a numeric sticker_path, the handler issues the send and returns exactly
\* one text item "Sticker sent successfully. Message ID: <id>"; an item
\* "Failed to send sticker: ..." is returned only when the backend itself
\* reports a failure.
C26_StickerSent ==
    (run.fn = "send_sticker" /\ HLeft) =>
        /\ run.world.accepts =>
               /\ run.out = Return(<< Text(<< "Sticker sent successfully. Message ID: ",
                                           ToString(run.world.message_id) >>) >>)
               /\ Len(run.reqs) = 1
               /\ run.reqs[1].op = "send_file"
        /\ (run.out.kind = "return" /\ run.out.ret # << >>
                /\ run.out.ret[1].text[1] = "Failed to send sticker: ") => ~run.world.accepts

\* The requests of the run that change something at the backend.
C27_Changes == SelectSeq(run.reqs, LAMBDA r : r.op # "get_entity")

\* C27 - ManageUser: when the chat and the user resolve and the backend accepts,
\* a "ban" with a positive ban_duration issues exactly one ban request whose
\* expiry is now + ban_duration and returns "Successfully banned user <id> for
\* <ban_duration> seconds"; a "ban" without duration issues one ban request
\* without expiry and returns "... permanently"; an action that is none of
\* kick, ban, unban changes nothing at the backend and returns the
\* "Invalid action" item.
C27_Ban ==
    (run.fn = "manage_user" /\ HLeft
        /\ run.world.chatOk /\ run.world.userOk /\ run.world.accepts) =>
        /\ (Lower(run.args.action) = "ban" /\ run.args.ban_duration # None /\ run.args.ban_duration[1] > 0) =>
               /\ Len(C27_Changes) = 1
               /\ C27_Changes[1].op = "EditBannedRequest"
               /\ C27_Changes[1].view_messages
               /\ C27_Changes[1].until_date = Some(run.world.now + run.args.ban_duration[1])
               /\ run.out = Return(<< Text(<< "Successfully banned user ", ToString(run.args.user_id),
                                           " for ", ToString(run.args.ban_duration[1]), " seconds" >>) >>)
        /\ (Lower(run.args.action) = "ban" /\ run.args.ban_duration = None) =>
               /\ Len(C27_Changes) = 1
               /\ C27_Changes[1].op = "EditBannedRequest"
               /\ C27_Changes[1].view_messages
               /\ C27_Changes[1].until_date = None
               /\ run.out = Return(<< Text(<< "Successfully banned user ", ToString(run.args.user_id),
                                           " permanently" >>) >>)
        /\ (Lower(run.args.action) \notin { "kick", "ban", "unban" }) =>
               /\ C27_Changes = << >>
               /\ run.out = Return(<< Text(<< "Invalid action. Use 'kick', 'ban', or 'unban'" >>) >>)

\* The update requests of the run.
C28_Updates == SelectSeq(run.reqs, LAMBDA r : r.op = "EditChatDefaultBannedRights")

\* C28 - SetChatPermissions: when the chat resolves, its current rights can be
\* read and the backend accepts, exactly one update request is issued, and for
\* each of the eleven permissions the banned right it carries is the chat's
\* current one when the argument is None and the negation of the argument when
\* it is given; no update request is issued when reading the current rights
\* fails.
C28_OnlySpecified ==
    (run.fn = "set_chat_permissions" /\ HLeft) =>
        /\ (run.world.chatOk /\ run.world.readOk /\ run.world.accepts) =>
               /\ Len(C28_Updates) = 1
               /\ \A p \in PermissionNames :
                      C28_Updates[1].banned_rights[p] =
                          IF run.args[p] = None THEN run.world.current[p] ELSE ~run.args[p][1]
        /\ (~run.world.chatOk \/ ~run.world.readOk) => C28_Updates = << >>

\* The users of the call that fail to resolve or to be promoted, in the order
\* of the list: the backend refuses the look-up or the promotion, or the request
\* class of the promotion cannot be looked up.
C29_FailingUsers ==
    SelectSeq(run.args.users,
              LAMBDA u : \/ u \notin run.world.resolves
                         \/ ~HasRequest("channels", "EditAdmin")
                         \/ u \notin run.world.promotes)

\* Whether an item begins with, or holds, a given phrase.
C29_IsWarningFor(item, user) ==
    Len(item.text) >= 2 /\ item.text[1] = "Warning: Failed to add user " /\ item.text[2] = user
C29_IsCreated(item) == \E i \in 1..Len(item.text) : item.text[i] = "' created successfully.\n"
C29_IsFailed(item) == item.text[1] = "Failed to create channel: "

\* The request that creates the channel of the run.
C29_Create ==
    [ op |-> "CreateChannel", title |-> run.args.title, broadcast |-> TRUE, megagroup |-> FALSE ]

\* The channel of the run has been created: the request was issued and accepted.
C29_Created ==
    /\ \E i \in 1..Len(run.reqs) : run.reqs[i] = C29_Create
    /\ run.world.createOk

\* What create_channel does once the channel has been created, on the
\* arguments and against the backend of the run.
C29_After == AfterCreation(run.args, run.world, C29_Create)

\* The steps after the users succeed: the auto-delete period, when one is given,
\* is set, and the invite link, when the channel is private, is exported.
C29_LaterStepsSucceed ==
    /\ Truthy(run.args.ttl_period) => (HasRequest("messages", "SetHistoryTTL") /\ run.world.ttlOk)
    /\ run.args.private => (HasRequest("messages", "ExportChatInvite") /\ run.world.inviteOk)

====
